---- MODULE Spec2Model ----
(***************************************************************************)
(* Model of the fingerprint-study analysis tool: the Experiment container  *)
(* and its consistency check, the row-membership and prefix-count indices, *)
(* and the bootstrap runner (sequential, per-replicate generators, global  *)
(* sharing).                                                               *)
(***************************************************************************)
EXTENDS Integers, Sequences, FiniteSets, TLC

VARIABLES
    \* ---- Experiment (experiment.py) ----
    far,            \* _tbl_far_decisions: the FAR decision table, or none
    frr,            \* _tbl_frr_decisions: the FRR decision table, or none
    groups,         \* _tbl_user_groups: the supplied user-group table, or none
    expResult,      \* outcome of the last query made on the experiment
    addLog,         \* history: what the add_* calls were last given
    \* ---- Row indices (DataFrameSetAccess, DataFrameCountTrieAccess) ----
    idxTable,       \* the table the indices were built from
    idxCols,        \* the cols argument of the constructors
    fa_set,         \* DataFrameSetAccess.set
    fa_trie,        \* DataFrameCountTrieAccess: prefix tuple -> row count
    idxQuery,       \* the last isin() call and its answer
    \* ---- Bootstrap.run (bootstrap.py) ----
    USE_GLOBAL_SHARING, \* class attribute of the engine
    cacheInits,     \* how many times _init has run for this engine
    pc,             \* where the process calling run() is
    num_samples,    \* argument of run()
    num_proc,       \* argument of run(): None, or a number
    parentRngs,     \* the generators made in the calling process, in order
    loop_i,         \* __run_single_process: iterations of the for loop
    boot_counts,    \* the list of counts being collected
    pool,           \* mp.Pool: "none", "up" or "terminated"
    workers,        \* the worker processes of the pool, by slot
    chunks,         \* pool.map: the task batches, each a list of items
    taskq,          \* pool.map: batches not yet taken by a worker
    chunkRes,       \* pool.map: what came back for each batch
    crashes,        \* worker processes that died during the run
    cacheTransfers, \* times the engine went to a worker process
    drawn,          \* history: the _sample calls made (generator, process)
    timing,         \* the _time_* attributes
    clock,          \* the readings of time.time() so far
    outcome,        \* what run() gave its caller
    \* ---- Bootstrap._sample of the three strategies (bootstrap.py) ----
    strategy,       \* the engine's class: "flat", "far" or "frr"
    cache,          \* the attributes _init sets on the engine
    cacheBuilt,     \* history: the cache as _init left it
    frames,         \* _sample: the nested for loops under way, outermost first
    sample,         \* _sample: the list `sample` (its length and its sum)
    smpCalls,       \* _sample calls begun on this engine
    smpRet,         \* what the last _sample call returned
    smpTable,       \* history: the table the engine's indices were built from
    smpPresent,     \* history: queried tuples of this call that are table rows
    smpLast,        \* history: the last trie or set lookup of the call under way
    \* ---- BootstrapResults.confidence_interval (bootstrap.py) ----
    ci_samples,     \* BootstrapResults._samples
    ciCall,         \* the last confidence_interval call and its result
    \* ---- Fake HAL config editor (fake_hal.py) ----
    configFile,     \* the file at _CONFIG_PATH: whether it exists, and its text
    EMPTY_CONFIG,   \* the module-level dict _EMPTY_CONFIG of the process
    halLast,        \* history: the last call, what it loaded, the ids it selected
    \* ---- cros_config_merge_backfilled_config.py ----
    config_bundle,             \* the ConfigBundle merged into
    backfilled_config_bundle,  \* the ConfigBundle merged from
    mrgHist,        \* history: the bundles as parsed and before the last merge
    \* ---- Capture webserver, FingerWebSocket (study_serve.py) ----
    current_req,    \* the request the worker is to process, 0 for None
    abort_request,  \* the flag that ends the worker's waiting loops
    lockOwner,      \* the thread that holds available_req, or "none"
    wsPc,           \* the websocket thread: where it is in its handler
    wsReq,          \* the websocket thread: the request of finger_request
    wkPc,           \* the worker thread: where it is in finger_worker
    wkReq,          \* the worker thread: the argument of finger_process
    terminated,     \* server_terminated or client_terminated
    srvHist,        \* history: requests arrived, handed over, answered
    \* ---- gen_skel of generate-ebpf.py ----
    genArgs,        \* the parsed arguments of the gen_skel sub-command
    genPc,          \* where do_gen_bpf_skeleton is
    genRan,         \* the commands run so far, in order
    genHeader,      \* the skeleton header file has been written
    genResult       \* what main returns, "none" while it runs

expVars == <<far, frr, groups, expResult, addLog>>
idxVars == <<idxTable, idxCols, fa_set, fa_trie, idxQuery>>

runVars ==
    <<USE_GLOBAL_SHARING, cacheInits, pc, num_samples, num_proc, parentRngs,
      loop_i, boot_counts, pool, workers, chunks, taskq, chunkRes, crashes,
      cacheTransfers, drawn, timing, clock, outcome>>

smpVars ==
    <<strategy, cache, cacheBuilt, frames, sample, smpCalls, smpRet, smpTable,
      smpPresent, smpLast>>
ciVars == <<ci_samples, ciCall>>
halVars == <<configFile, EMPTY_CONFIG, halLast>>

\* The analysis tool's variables, and those of the other tools.
bootVars == <<expVars, idxVars, runVars, smpVars, ciVars>>
mrgVars == <<config_bundle, backfilled_config_bundle, mrgHist>>
srvVars ==
    <<current_req, abort_request, lockOwner, wsPc, wsReq, wkPc, wkReq,
      terminated, srvHist>>
genVars == <<genArgs, genPc, genRan, genHeader, genResult>>
toolVars == <<halVars, mrgVars, srvVars, genVars>>

vars == <<bootVars, toolVars>>

(***************************************************************************)
(* Experiment: decision tables, user groups, check()                       *)
(***************************************************************************)

\* Bound: rows held by the FAR and the FRR table together.
MaxExpRows == 2

\* Experiment.DECISION_TABLE_GROUP_COLS
DECISION_TABLE_GROUP_COLS == {"EnrollGroup", "VerifyGroup"}

ExpUsers == {10001, 10002}
\* Enrolled templates are those of one user; both users verify against them.
ExpEnrollUsers == {10001}
ExpEnrollFingers == {1}
ExpVerifyFingers == {1, 2}
ExpGroups == {"A", "B"}
\* The value of a group cell whose column the table does not carry.
NoGroup == "-"

\* A decision row, as far as check() and the group inference read it
\* (VerifySample and Decision are read by neither).
DecisionRows ==
    [EnrollUser : ExpEnrollUsers, EnrollFinger : ExpEnrollFingers,
     VerifyUser : ExpUsers, VerifyFinger : ExpVerifyFingers,
     EnrollGroup : ExpGroups, VerifyGroup : ExpGroups]

\* The row as a table with the group columns `cols` stores it.
Project(r, cols) ==
    [r EXCEPT !.EnrollGroup = IF "EnrollGroup" \in cols THEN @ ELSE NoGroup,
              !.VerifyGroup = IF "VerifyGroup" \in cols THEN @ ELSE NoGroup]

\* None, for a table attribute of the experiment.
NoTable == [has |-> FALSE, cols |-> {}, rows |-> {}]

\* pd.DataFrame with the six decision columns and the group columns `cols`.
DataFrame(cols, rows) ==
    [has |-> TRUE, cols |-> cols, rows |-> {Project(r, cols) : r \in rows}]

\* The sets of at most n rows.
RECURSIVE RowSets(_)
RowSets(n) ==
    IF n <= 0 THEN {{}}
    ELSE LET prev == RowSets(n - 1) IN
         prev \cup {s \cup {r} : s \in prev, r \in DecisionRows}

\* Every decision table of at most n rows.
DecisionTables(n) ==
    UNION {{DataFrame(cols, rows) : rows \in RowSets(n)} :
           cols \in SUBSET DECISION_TABLE_GROUP_COLS}

\* User-group tables (columns User, Group) a caller may supply.
NoGroupTable == [has |-> FALSE, pairs |-> {}]
UserGroupTables ==
    {[has |-> TRUE, pairs |-> {<<10001, "A">>, <<10002, "B">>}],
     [has |-> TRUE, pairs |-> {<<10001, "B">>}]}

\* fpsutils.has_columns(tbl, cols)
has_columns(tbl, cols) == tbl.has /\ cols \subseteq tbl.cols

\* Exactly one of the two group columns is there.
PartialGroupCols(tbl) ==
    /\ tbl.has
    /\ tbl.cols \cap DECISION_TABLE_GROUP_COLS # {}
    /\ ~(DECISION_TABLE_GROUP_COLS \subseteq tbl.cols)

\* An impostor attempt: the verifying user is not the enrolled user.
IsImpostor(r) == r.EnrollUser # r.VerifyUser

\* A genuine attempt: same user and same finger.
IsGenuine(r) == r.EnrollUser = r.VerifyUser /\ r.EnrollFinger = r.VerifyFinger

\* Mutant: the inference scans the enroll columns only.
UserGroupPairs_EnrollOnly(tbl) ==
    IF tbl.has /\ DECISION_TABLE_GROUP_COLS \subseteq tbl.cols
    THEN {<<r.EnrollUser, r.EnrollGroup>> : r \in tbl.rows}
    ELSE {}

\* The (user, group) pairs of a table's enroll and verify columns.
UserGroupPairs(tbl) ==
    IF has_columns(tbl, DECISION_TABLE_GROUP_COLS)
    THEN {<<r.EnrollUser, r.EnrollGroup>> : r \in tbl.rows}
             \cup {<<r.VerifyUser, r.VerifyGroup>> : r \in tbl.rows}
    ELSE {}

\* The pairs group inference scans: both tables, enroll and verify columns.
InferredPairs(f, r) == UserGroupPairs(f) \cup UserGroupPairs(r)

\* Some user maps to more than one group.
GroupConflict(pairs) ==
    \E p, q \in pairs : p[1] = q[1] /\ p[2] # q[2]

\* Mutant: the FRR table's group columns are not looked at.
has_user_groups_NoFrr(f, r, g) ==
    g.has \/ (f.has /\ DECISION_TABLE_GROUP_COLS \subseteq f.cols)

\* Experiment.has_user_groups()
has_user_groups(f, r, g) ==
    \/ g.has
    \/ has_columns(f, DECISION_TABLE_GROUP_COLS)
    \/ has_columns(r, DECISION_TABLE_GROUP_COLS)

\* Experiment.user_groups_table(): the supplied table, else the inferred one.
user_groups_table(f, r, g) ==
    IF g.has THEN [status |-> "ok", pairs |-> g.pairs]
    ELSE IF ~has_user_groups(f, r, g) THEN [status |-> "none", pairs |-> {}]
    ELSE IF GroupConflict(InferredPairs(f, r))
         THEN [status |-> "GroupConflictError", pairs |-> {}]
    ELSE [status |-> "ok", pairs |-> InferredPairs(f, r)]

\* Mutant: the group consistency of the tables is not checked.
check_NoGroupCheck(f, r) ==
    IF PartialGroupCols(f) \/ PartialGroupCols(r) THEN "SchemaError"
    ELSE IF \/ \E x \in f.rows : ~IsImpostor(x)
            \/ \E x \in r.rows : ~IsGenuine(x)
         THEN "SemanticError"
    ELSE "ok"

\* Mutant: the rows are checked before the columns.
check_SemanticFirst(f, r) ==
    IF \/ \E x \in f.rows : ~IsImpostor(x)
       \/ \E x \in r.rows : ~IsGenuine(x)
    THEN "SemanticError"
    ELSE IF PartialGroupCols(f) \/ PartialGroupCols(r) THEN "SchemaError"
    ELSE IF GroupConflict(InferredPairs(f, r)) THEN "GroupConflictError"
    ELSE "ok"

\* Mutant: a table passes as soon as one of its rows is of the right kind
\* (the others are dropped silently).
check_Filtering(f, r) ==
    IF PartialGroupCols(f) \/ PartialGroupCols(r) THEN "SchemaError"
    ELSE IF \/ f.rows # {} /\ \A x \in f.rows : ~IsImpostor(x)
            \/ r.rows # {} /\ \A x \in r.rows : ~IsGenuine(x)
         THEN "SemanticError"
    ELSE IF GroupConflict(InferredPairs(f, r)) THEN "GroupConflictError"
    ELSE "ok"

\* Experiment.check(): schema, then semantics, then group consistency.
check(f, r) ==
    IF PartialGroupCols(f) \/ PartialGroupCols(r) THEN "SchemaError"
    ELSE IF \/ \E x \in f.rows : ~IsImpostor(x)
            \/ \E x \in r.rows : ~IsGenuine(x)
         THEN "SemanticError"
    ELSE IF GroupConflict(InferredPairs(f, r)) THEN "GroupConflictError"
    ELSE "ok"

NoResult == [op |-> "none", status |-> "none", flag |-> FALSE, pairs |-> {}]

\* No index built and no isin() call made.
NoCols == [given |-> FALSE, list |-> <<>>]
NoQuery == [on |-> "none", values |-> <<>>, answer |-> FALSE]
IdxIdle ==
    /\ idxTable = [columns |-> <<>>, rows |-> <<>>]
    /\ idxCols = NoCols
    /\ fa_set = {}
    /\ fa_trie = <<>>
    /\ idxQuery = NoQuery

\* Experiment(): no table yet.
ExpIdle ==
    /\ far = NoTable
    /\ frr = NoTable
    /\ groups = NoGroupTable
    /\ expResult = NoResult
    /\ addLog = [far |-> FALSE, frr |-> FALSE, groups |-> FALSE]

\* A Bootstrap engine of the base class, constructed and not run.
NoOutcome == [kind |-> "none", error |-> "none", samples |-> <<>>]
NoTiming ==
    [init_start |-> 1, init_end |-> 2, rng_start |-> 0, rng_end |-> 0,
     pool_startup_start |-> 0, pool_startup_end |-> 0,
     samples_start |-> 0, samples_end |-> 0]
Constructed(sharing) ==
    /\ USE_GLOBAL_SHARING = sharing
    /\ cacheInits = 1
    /\ pc = "idle"
    /\ num_samples = 0
    /\ num_proc = [none |-> TRUE, n |-> 0]
    /\ parentRngs = <<>>
    /\ loop_i = 0
    /\ boot_counts = <<>>
    /\ pool = "none"
    /\ workers = <<>>
    /\ chunks = <<>>
    /\ taskq = <<>>
    /\ chunkRes = <<>>
    /\ crashes = 0
    /\ cacheTransfers = 0
    /\ drawn = {}
    /\ timing = NoTiming
    /\ clock = 2
    /\ outcome = NoOutcome
RunIdle == Constructed(FALSE)

\* No engine of a concrete strategy has been constructed.
NoCache ==
    [far_list |-> <<>>, users_list |-> <<>>, fingers_list |-> <<>>,
     samples_list |-> <<>>, fa_set |-> {}, fa_trie |-> <<>>]
NoSample == [n |-> 0, sum |-> 0]
NoReturn == [returned |-> FALSE, count |-> 0, positions |-> <<>>]
NoSmpTable == [columns |-> <<>>, rows |-> <<>>]
NoLookup == [kind |-> "none", tuple |-> <<>>, answer |-> FALSE]
SmpIdle ==
    /\ strategy = "none"
    /\ cache = NoCache
    /\ cacheBuilt = NoCache
    /\ frames = <<>>
    /\ sample = NoSample
    /\ smpCalls = 0
    /\ smpRet = NoReturn
    /\ smpTable = NoSmpTable
    /\ smpPresent = 0
    /\ smpLast = NoLookup

\* No BootstrapResults has been made.
NoCICall ==
    [on |-> FALSE, confidence_percent |-> 0, before |-> <<>>,
     ci_percent_lower |-> 0, ci_percent_upper |-> 0,
     lower |-> 0, upper |-> 0]
CIIdle == ci_samples = <<>> /\ ciCall = NoCICall

\* The config file is not there, and no call was made.
NoFile == [exists |-> FALSE, text |-> <<>>]
NoHalOp == [op |-> "none", loaded |-> <<>>, sel |-> {}]
HalIdle ==
    /\ configFile = NoFile
    /\ EMPTY_CONFIG = [cameras |-> <<>>]
    /\ halLast = NoHalOp

\* No ConfigBundle has been parsed.
NoBundle == [components |-> <<>>, design_list |-> <<>>]
MrgIdle ==
    /\ config_bundle = NoBundle
    /\ backfilled_config_bundle = NoBundle
    /\ mrgHist = [merges |-> 0, original |-> NoBundle, backfilled |-> NoBundle,
                  before |-> NoBundle]

\* No websocket is open, no worker thread runs.
NoSrvHist ==
    [arrived |-> 0, handed |-> {}, answered |-> {}, dropped |-> {},
     unlocked |-> FALSE, closing |-> FALSE]
SrvIdle ==
    /\ current_req = 0
    /\ abort_request = FALSE
    /\ lockOwner = "none"
    /\ wsPc = "none" /\ wsReq = 0
    /\ wkPc = "none" /\ wkReq = 0
    /\ terminated = FALSE
    /\ srvHist = NoSrvHist

\* generate-ebpf.py has not been called.
GenIdle ==
    /\ genArgs = [arch |-> "", out_min_btf |-> FALSE, vmlinux_btf |-> FALSE]
    /\ genPc = "none"
    /\ genRan = <<>>
    /\ genHeader = FALSE
    /\ genResult = "none"

\* None of the other tools has been started.
ToolsIdle == HalIdle /\ MrgIdle /\ SrvIdle /\ GenIdle

ExpInit == ExpIdle /\ IdxIdle /\ RunIdle /\ SmpIdle /\ CIIdle /\ ToolsIdle

\* Experiment.add_far_decisions(tbl), or far_decisions= of the constructor:
\* each table of an experiment is set once.
add_far_decisions ==
    /\ ~far.has
    /\ \E tbl \in DecisionTables(MaxExpRows - Cardinality(frr.rows)) :
          /\ far' = tbl
          /\ addLog' = [addLog EXCEPT
                           !.far = DECISION_TABLE_GROUP_COLS \subseteq tbl.cols]
          /\ expResult' = NoResult
          /\ UNCHANGED <<frr, groups, toolVars, idxVars, runVars, smpVars, ciVars>>

\* Experiment.add_frr_decisions(tbl)
add_frr_decisions ==
    /\ ~frr.has
    /\ \E tbl \in DecisionTables(MaxExpRows - Cardinality(far.rows)) :
          /\ frr' = tbl
          /\ addLog' = [addLog EXCEPT
                           !.frr = DECISION_TABLE_GROUP_COLS \subseteq tbl.cols]
          /\ expResult' = NoResult
          /\ UNCHANGED <<far, groups, toolVars, idxVars, runVars, smpVars, ciVars>>

\* Experiment.add_groups(tbl)
add_groups ==
    /\ ~groups.has
    /\ \E tbl \in UserGroupTables :
          /\ groups' = tbl
          /\ addLog' = [addLog EXCEPT !.groups = TRUE]
          /\ expResult' = NoResult
          /\ UNCHANGED <<far, frr, toolVars, idxVars, runVars, smpVars, ciVars>>

\* A call of exp.check(): raises or returns, and changes no table.
CallCheck ==
    /\ expResult' = [NoResult EXCEPT !.op = "check", !.status = check(far, frr)]
    /\ UNCHANGED <<far, frr, groups, addLog, toolVars, idxVars, runVars, smpVars, ciVars>>

\* A call of exp.has_user_groups()
CallHasUserGroups ==
    /\ expResult' = [NoResult EXCEPT !.op = "has_user_groups", !.status = "ok",
                                     !.flag = has_user_groups(far, frr, groups)]
    /\ UNCHANGED <<far, frr, groups, addLog, toolVars, idxVars, runVars, smpVars, ciVars>>

\* A call of exp.user_groups_table()
CallUserGroupsTable ==
    /\ LET res == user_groups_table(far, frr, groups) IN
       expResult' = [NoResult EXCEPT !.op = "user_groups_table",
                                     !.status = res.status, !.pairs = res.pairs]
    /\ UNCHANGED <<far, frr, groups, addLog, toolVars, idxVars, runVars, smpVars, ciVars>>

ExpNext ==
    \/ add_far_decisions
    \/ add_frr_decisions
    \/ add_groups
    \/ CallCheck
    \/ CallHasUserGroups
    \/ CallUserGroupsTable

SpecExperiment == ExpInit /\ [][ExpNext]_vars

(***************************************************************************)
(* Claims about the Experiment                                             *)
(***************************************************************************)

\* What the claims say of the held tables, written on the rows themselves.
CheckWasCalled == expResult.op = "check" /\ (far.has \/ frr.has)
EveryFarRowImpostor == \A x \in far.rows : x.EnrollUser # x.VerifyUser
EveryFrrRowGenuine ==
    \A x \in frr.rows :
        x.EnrollUser = x.VerifyUser /\ x.EnrollFinger = x.VerifyFinger
SomeFarRowGenuine ==
    \E x \in far.rows :
        x.EnrollUser = x.VerifyUser /\ x.EnrollFinger = x.VerifyFinger
SomeFrrRowImpostor == \E x \in frr.rows : x.EnrollUser # x.VerifyUser
BothOrNeither(tbl) == ("EnrollGroup" \in tbl.cols) <=> ("VerifyGroup" \in tbl.cols)
ExactlyOneGroupCol(tbl) ==
    tbl.has /\ ~(("EnrollGroup" \in tbl.cols) <=> ("VerifyGroup" \in tbl.cols))
\* The group cells of the two tables, as (user, group) pairs.
GroupCells ==
    UNION {{<<x.EnrollUser, x.EnrollGroup>>, <<x.VerifyUser, x.VerifyGroup>>} :
           x \in {y \in far.rows \cup frr.rows :
                     y.EnrollGroup # NoGroup /\ y.VerifyGroup # NoGroup}}
OneGroupPerUser ==
    \A u \in ExpUsers : Cardinality({p \in GroupCells : p[1] = u}) <= 1

\* C1 (as claimed): check() succeeds iff every FAR row is an impostor attempt,
\* every FRR row is a genuine attempt and each table has both group columns
\* or none.
C1_CheckIffRowsAndColumns ==
    CheckWasCalled =>
        (expResult.status = "ok"
            <=> /\ EveryFarRowImpostor
                /\ EveryFrrRowGenuine
                /\ BothOrNeither(far) /\ BothOrNeither(frr))

\* C1 (amended): check() succeeds iff, in addition, the group columns of the
\* tables give no user two different groups.
C1_CheckIffConsistent ==
    CheckWasCalled =>
        (expResult.status = "ok"
            <=> /\ EveryFarRowImpostor
                /\ EveryFrrRowGenuine
                /\ BothOrNeither(far) /\ BothOrNeither(frr)
                /\ OneGroupPerUser)

\* C1 witness: check() passed an experiment with a FAR and an FRR table, both
\* with rows and group columns.
C1_Witness ==
    /\ expResult.op = "check" /\ expResult.status = "ok"
    /\ far.rows # {} /\ frr.rows # {}
    /\ far.cols = DECISION_TABLE_GROUP_COLS /\ frr.cols = DECISION_TABLE_GROUP_COLS

\* C2: check() fails with the schema error whenever a table carries exactly
\* one of the two group columns, whatever its rows are.
C2_PartialGroupsSchemaError ==
    (expResult.op = "check" /\ (ExactlyOneGroupCol(far) \/ ExactlyOneGroupCol(frr)))
        => expResult.status = "SchemaError"

\* C2 witness: the schema error, for a FAR table with the verify group alone
\* and a row that is no impostor attempt.
C2_Witness ==
    /\ expResult.op = "check" /\ expResult.status = "SchemaError"
    /\ far.cols = {"VerifyGroup"}
    /\ ~EveryFarRowImpostor

C4_GroupInference ==
    (/\ expResult.op = "user_groups_table"
     /\ ~groups.has
     /\ \/ {"EnrollGroup", "VerifyGroup"} \subseteq far.cols
        \/ {"EnrollGroup", "VerifyGroup"} \subseteq frr.cols)
        => IF OneGroupPerUser
           THEN /\ expResult.status = "ok"
                /\ expResult.pairs = GroupCells
                /\ \A u \in {p[1] : p \in GroupCells} :
                       Cardinality({p \in expResult.pairs : p[1] = u}) = 1
           ELSE expResult.status = "GroupConflictError"

\* C4 witness: two users inferred, one of them only from a verify column of
\* the FAR table, the FRR table contributing too.
C4_Witness ==
    /\ expResult.op = "user_groups_table" /\ expResult.status = "ok"
    /\ ~groups.has
    /\ Cardinality(expResult.pairs) = 2
    /\ far.rows # {} /\ frr.rows # {}
    /\ far.cols = DECISION_TABLE_GROUP_COLS /\ frr.cols = DECISION_TABLE_GROUP_COLS
    /\ \E x \in far.rows : \A y \in far.rows \cup frr.rows :
           y.EnrollUser # x.VerifyUser

\* C5: has_user_groups() is true iff a user-group table was added or an added
\* decision table carries the group columns.
C5_HasUserGroups ==
    expResult.op = "has_user_groups"
        => (expResult.flag <=> (addLog.groups \/ addLog.far \/ addLog.frr))

\* C5 witness: true on account of the FRR table alone.
C5_Witness ==
    /\ expResult.op = "has_user_groups" /\ expResult.flag
    /\ frr.has /\ ~addLog.far /\ ~addLog.groups


(***************************************************************************)
(* DataFrameSetAccess and DataFrameCountTrieAccess                         *)
(***************************************************************************)

\* Bound: rows of the indexed table.
MaxIdxRows == 2

\* The columns of the indexed table (those of the FRR index), in table order.
IdxColumns == <<"EnrollUser", "EnrollFinger", "VerifySample">>
\* The cell values of the table, the same for every column.
IdxValues == {0, 1}
\* The values of a queried tuple: one more than the table holds.
IdxQueryValues == {0, 1, 2}

IdxRow == [{IdxColumns[k] : k \in 1..Len(IdxColumns)} -> IdxValues]

\* The sequences of at most n elements of S.
RECURSIVE SeqsUpTo(_, _)
SeqsUpTo(S, n) ==
    IF n <= 0 THEN {<<>>}
    ELSE LET prev == SeqsUpTo(S, n - 1) IN
         prev \cup {Append(q, x) : q \in prev, x \in S}

IdxTables ==
    {[columns |-> IdxColumns, rows |-> rs] : rs \in SeqsUpTo(IdxRow, MaxIdxRows)}

\* The cols arguments: None, or a list of distinct columns in any order.
IdxColumnLists ==
    {NoCols} \cup
    {[given |-> TRUE, list |-> l] :
        l \in {q \in SeqsUpTo({IdxColumns[k] : k \in 1..Len(IdxColumns)},
                               Len(IdxColumns)) :
                  q # <<>> /\ \A i, j \in 1..Len(q) : i # j => q[i] # q[j]}}

\* tuple(row) for a row of table[cols]
RowTuple(row, cols) == [k \in 1..Len(cols) |-> row[cols[k]]]

\* Mutant: the default columns are used whatever cols is.
EffectiveCols_AlwaysDefault(table, cols) == table.columns

\* `if not cols: cols = table.columns`
EffectiveCols(table, cols) ==
    IF ~cols.given \/ cols.list = <<>> THEN table.columns ELSE cols.list

\* DataFrameSetAccess.__init__: {tuple(row) for row in np.array(table[cols])}
DataFrameSetAccess(table, cols) ==
    LET c == EffectiveCols(table, cols) IN
    {RowTuple(table.rows[i], c) : i \in 1..Len(table.rows)}

\* DataFrameSetAccess.isin
set_isin(set, values) == values \in set

\* One row added to the prefix counts: every prefix of it counts one more.
TrieAdd(trie, tup) ==
    LET ps == {SubSeq(tup, 1, k) : k \in 1..Len(tup)} IN
    [p \in DOMAIN trie \cup ps |->
        (IF p \in DOMAIN trie THEN trie[p] ELSE 0) + (IF p \in ps THEN 1 ELSE 0)]

\* The prefix counts of rows 1..n of table[cols].
RECURSIVE TrieOfRows(_, _, _)
TrieOfRows(table, cols, n) ==
    IF n = 0 THEN <<>>
    ELSE TrieAdd(TrieOfRows(table, cols, n - 1), RowTuple(table.rows[n], cols))

\* fpsutils.DataFrameCountTrieAccess(table, cols)
DataFrameCountTrieAccess(table, cols) == TrieOfRows(table, cols, Len(table.rows))

\* DataFrameCountTrieAccess.isin: the count below the path is not zero.
trie_isin(trie, values) == values \in DOMAIN trie /\ trie[values] > 0

\* Mutant: the prefix index gets the columns in reverse order.
TrieColumns_Reversed(table, cols) ==
    LET c == EffectiveCols(table, cols) IN
    [k \in 1..Len(c) |-> c[Len(c) + 1 - k]]

\* The column list handed to the prefix index: the one the set was given.
TrieColumns(table, cols) == EffectiveCols(table, cols)

\* The two indices built from one table and one column list (as in _init).
IdxBuild ==
    /\ idxTable.columns = <<>>
    /\ \E table \in IdxTables, cols \in IdxColumnLists :
          /\ idxTable' = table
          /\ idxCols' = cols
          /\ fa_set' = DataFrameSetAccess(table, cols)
          /\ fa_trie' = DataFrameCountTrieAccess(table, TrieColumns(table, cols))
          /\ idxQuery' = NoQuery
    /\ UNCHANGED <<toolVars, expVars, runVars, smpVars, ciVars>>

\* The tuples a caller may ask for.
IdxQueries == SeqsUpTo(IdxQueryValues, Len(IdxColumns))

\* fa_set.isin(values)
SetIsin ==
    /\ idxTable.columns # <<>>
    /\ idxQuery.on = "none"
    /\ \E values \in IdxQueries :
          idxQuery' = [on |-> "set", values |-> values,
                       answer |-> set_isin(fa_set, values)]
    /\ UNCHANGED <<toolVars, expVars, runVars, smpVars, ciVars, idxTable, idxCols, fa_set, fa_trie>>

\* fa_trie.isin(values)
TrieIsin ==
    /\ idxTable.columns # <<>>
    /\ idxQuery.on = "none"
    /\ \E values \in IdxQueries :
          idxQuery' = [on |-> "trie", values |-> values,
                       answer |-> trie_isin(fa_trie, values)]
    /\ UNCHANGED <<toolVars, expVars, runVars, smpVars, ciVars, idxTable, idxCols, fa_set, fa_trie>>

\* The caller has taken the answer; the indices are as they were.
IdxReturn ==
    /\ idxQuery.on # "none"
    /\ idxQuery' = NoQuery
    /\ UNCHANGED <<toolVars, expVars, runVars, smpVars, ciVars, idxTable, idxCols, fa_set, fa_trie>>

IdxInit == ExpIdle /\ IdxIdle /\ RunIdle /\ SmpIdle /\ CIIdle /\ ToolsIdle

IdxNext == IdxBuild \/ SetIsin \/ TrieIsin \/ IdxReturn

SpecIndex == IdxInit /\ [][IdxNext]_vars

(***************************************************************************)
(* Claims about the indices                                                *)
(***************************************************************************)

\* The column list the indices were asked to be built on.
AskedCols == IF idxCols.given THEN idxCols.list ELSE idxTable.columns

\* Row i of the table has the values of tuple t in the first Len(t) asked
\* columns, in that order.
RowStartsWith(i, t) ==
    /\ Len(t) <= Len(AskedCols)
    /\ \A k \in 1..Len(t) : idxTable.rows[i][AskedCols[k]] = t[k]

\* C6: contains(t) is true iff some row of the table, projected onto the
\* column list in its order, equals t.
C6_ContainsIffRow ==
    idxQuery.on = "set" =>
        (idxQuery.answer
            <=> \E i \in 1..Len(idxTable.rows) :
                   /\ Len(idxQuery.values) = Len(AskedCols)
                   /\ RowStartsWith(i, idxQuery.values))

\* C6 witness: a tuple whose values all occur in a row, but in another column
\* order, is reported absent from an index over two columns of a table that
\* holds rows.
C6_Witness ==
    /\ idxQuery.on = "set" /\ ~idxQuery.answer
    /\ idxCols.given /\ Len(idxCols.list) = 2
    /\ Len(idxQuery.values) = 2
    /\ idxQuery.values[1] # idxQuery.values[2]
    /\ <<idxQuery.values[2], idxQuery.values[1]>> \in fa_set

\* C7: has_prefix(p), for p of length 1..n, is true iff at least one row's
\* first Len(p) projected columns equal p.
C7_HasPrefixIffRow ==
    (idxQuery.on = "trie" /\ Len(idxQuery.values) \in 1..Len(AskedCols)) =>
        (idxQuery.answer
            <=> \E i \in 1..Len(idxTable.rows) : RowStartsWith(i, idxQuery.values))

\* C7 witness: a proper prefix of a row is reported present although the
\* prefix is no row of a three-column index.
C7_Witness ==
    /\ idxQuery.on = "trie" /\ idxQuery.answer
    /\ Len(AskedCols) = 3 /\ Len(idxQuery.values) = 2
    /\ ~(idxQuery.values \in fa_set)
    /\ Len(idxTable.rows) = 2 /\ idxTable.rows[1] # idxTable.rows[2]


(***************************************************************************)
(* Bootstrap.run: sequential, per-replicate generators, global sharing     *)
(***************************************************************************)

\* Bound: the largest num_samples asked for.
MaxSamples == 5
\* mp.cpu_count() on the machine the study is analysed on.
CpuCount == 2
\* Bound: worker processes that die during one run.
MaxCrashes == 1

\* The num_proc arguments: None, a negative number, 0, or a worker count.
NumProcNone == [none |-> TRUE, n |-> 0]
NumProcArgs ==
    {NumProcNone} \cup {[none |-> FALSE, n |-> k] : k \in {-1, 0, 1, 2}}

\* Process identities: the caller of run(), and the process in a pool slot.
Parent == [slot |-> 0, gen |-> 0]
Pid(w) == [slot |-> w, gen |-> workers[w].gen]

\* A generator: its seed (-1: fresh entropy of the operating system), the
\* process that made it and how many that process had made before.
NoRng == [seed |-> -1, owner |-> [slot |-> -1, gen |-> 0], serial |-> 0]
default_rng(seed, owner, serial) ==
    [seed |-> seed, owner |-> owner, serial |-> serial]

\* One count of the result: _sample(rng) returns a function of the cache and
\* of the generator's state, that is of the generator and of the number of
\* replicates already drawn from it; `by` is the process that computed it.
Count(rep, rng, pos, by) == [rep |-> rep, rng |-> rng, pos |-> pos, by |-> by]

\* What the history keeps of a _sample call: the generator it was given and
\* the process that made the call.
Draw(count) == [rng |-> count.rng, by |-> count.by]

\* A worker process that has just been started in a slot: with global
\* sharing it has the initializer to run first, otherwise it is ready.
NewWorker(gen) ==
    [gen |-> gen,
     state |-> IF USE_GLOBAL_SHARING THEN "starting" ELSE "ready",
     inits |-> 0, rng |-> NoRng, hasData |-> FALSE, draws |-> 0, task |-> 0,
     done |-> <<>>]

\* progress(range(num_samples), num_samples), with the default progress.
Range(n) == [i \in 1..n |-> i - 1]

\* time.time(): the k-th reading from now.
Now(k) == clock + k

\* Mutant: num_proc = 0 is passed on to the pool as it is.
PoolSize_ZeroNotMapped(np) == np

\* `if num_proc == 0: num_proc = mp.cpu_count()`
PoolSize(np) == IF np = 0 THEN CpuCount ELSE np

\* Mutant: the pool takes any process count.
PoolRefuses_Never(processes) == FALSE

\* mp.Pool(processes=...): "Number of processes must be at least 1".
PoolRefuses(processes) == processes < 1

\* Mutant: the end of the sampling phase is not recorded.
StampSamplesEnd_Missing(t) == t

\* self._time_samples_end = time.time()
StampSamplesEnd(t) == [t EXCEPT !.samples_end = Now(1)]

\* Pool.map: chunksize, extra = divmod(len(iterable), len(pool) * 4)
ChunkSize(n, p) ==
    IF n = 0 THEN 0
    ELSE (n \div (p * 4)) + (IF n % (p * 4) # 0 THEN 1 ELSE 0)

\* Pool._get_tasks: the items cut into batches of `size`.
RECURSIVE Slices(_, _)
Slices(items, size) ==
    IF items = <<>> THEN <<>>
    ELSE IF Len(items) <= size THEN <<items>>
    ELSE <<SubSeq(items, 1, size)>>
             \o Slices(SubSeq(items, size + 1, Len(items)), size)

\* The batches' results put end to end.
RECURSIVE Concat(_)
Concat(res) ==
    IF res = <<>> THEN <<>> ELSE Head(res).counts \o Concat(Tail(res))

\* The engine as constructed: __init__ has run _init once.
RunInit ==
    /\ ExpIdle /\ IdxIdle /\ SmpIdle /\ CIIdle /\ ToolsIdle
    /\ \E sharing \in BOOLEAN : Constructed(sharing)

\* run(num_samples, None): __run_single_process up to the loop.
RunSingle ==
    /\ pc = "idle"
    /\ \E n \in 0..MaxSamples :
          /\ num_samples' = n
          /\ num_proc' = NumProcNone
    /\ parentRngs' = <<default_rng(-1, Parent, 0)>>
    /\ loop_i' = 0
    /\ boot_counts' = <<>>
    /\ timing' = [timing EXCEPT !.rng_start = Now(1), !.rng_end = Now(2),
                                !.samples_start = Now(3)]
    /\ clock' = Now(3)
    /\ pc' = "single_loop"
    /\ UNCHANGED <<toolVars, expVars, idxVars, smpVars, ciVars, drawn,
                   USE_GLOBAL_SHARING, cacheInits, pool,
                   workers, chunks, taskq, chunkRes, crashes, cacheTransfers,
                   outcome>>

\* Mutant: a generator of its own for every iteration of the loop.
SingleRng_FreshEach(i) == default_rng(-1, Parent, i)

\* The generator the i-th iteration hands to _sample: the one made before
\* the loop.
SingleRng(i) == parentRngs[1]

\* The count of the iteration under way: _sample(rng) in the calling process.
SingleCount ==
    Count(loop_i, SingleRng(loop_i),
          Cardinality({k \in 1..Len(boot_counts) :
                         boot_counts[k].rng = SingleRng(loop_i)}),
          Parent)

\* One iteration: boot_counts.append(self._sample(rng)).
SingleSampleOk ==
    /\ pc = "single_loop"
    /\ loop_i < num_samples
    /\ boot_counts' = Append(boot_counts, SingleCount)
    /\ drawn' = drawn \cup {Draw(SingleCount)}
    /\ loop_i' = loop_i + 1
    /\ UNCHANGED <<toolVars, expVars, idxVars, smpVars, ciVars,
                   USE_GLOBAL_SHARING, cacheInits, pc,
                   num_samples, num_proc, parentRngs, pool, workers, chunks,
                   taskq, chunkRes, crashes, cacheTransfers, timing, clock,
                   outcome>>

\* Mutant: the loop goes on to the next replicate when _sample raises.
SingleSampleRaises_Swallowed ==
    /\ pc = "single_loop"
    /\ loop_i < num_samples
    /\ loop_i' = loop_i + 1
    /\ UNCHANGED <<toolVars, expVars, idxVars, smpVars, ciVars, drawn,
                   USE_GLOBAL_SHARING, cacheInits, pc,
                   num_samples, num_proc, parentRngs, boot_counts, pool,
                   workers, chunks, taskq, chunkRes, crashes, cacheTransfers,
                   timing, clock, outcome>>

\* One iteration in which _sample raises: the exception leaves run().
SingleSampleRaises ==
    /\ pc = "single_loop"
    /\ loop_i < num_samples
    /\ pc' = "raised"
    /\ outcome' = [kind |-> "raised", error |-> "Exception", samples |-> <<>>]
    /\ drawn' = drawn \cup {Draw(SingleCount)}
    /\ UNCHANGED <<toolVars, expVars, idxVars, smpVars, ciVars,
                   USE_GLOBAL_SHARING, cacheInits,
                   num_samples, num_proc, parentRngs, loop_i, boot_counts,
                   pool, workers, chunks, taskq, chunkRes, crashes,
                   cacheTransfers, timing, clock>>

\* The loop is over: run() returns BootstrapResults(boot_counts).
SingleReturn ==
    /\ pc = "single_loop"
    /\ loop_i = num_samples
    /\ timing' = StampSamplesEnd(timing)
    /\ clock' = Now(1)
    /\ pc' = "returned"
    /\ outcome' = [kind |-> "returned", error |-> "none", samples |-> boot_counts]
    /\ UNCHANGED <<toolVars, expVars, idxVars, smpVars, ciVars, drawn,
                   USE_GLOBAL_SHARING, cacheInits,
                   num_samples, num_proc, parentRngs, loop_i, boot_counts,
                   pool, workers, chunks, taskq, chunkRes, crashes,
                   cacheTransfers>>

\* run(num_samples, num_proc), num_proc a number: __run_multi_process up to
\* the pool being there. mp.Pool starts `processes` worker processes.
RunMulti ==
    /\ pc = "idle"
    /\ \E n \in 0..MaxSamples, np \in NumProcArgs \ {NumProcNone} :
          /\ ~PoolRefuses(PoolSize(np.n))
          /\ num_samples' = n
          /\ num_proc' = np
          /\ workers' = [w \in 1..PoolSize(np.n) |-> NewWorker(0)]
    /\ pool' = "up"
    /\ timing' = [timing EXCEPT !.pool_startup_start = Now(1),
                                !.pool_startup_end = Now(2)]
    /\ clock' = Now(2)
    /\ pc' = "pool_up"
    /\ UNCHANGED <<toolVars, expVars, idxVars, smpVars, ciVars, drawn,
                   USE_GLOBAL_SHARING, cacheInits,
                   parentRngs, loop_i, boot_counts, chunks, taskq, chunkRes,
                   crashes, cacheTransfers, outcome>>

\* The same with a process count mp.Pool refuses ("Number of processes must
\* be at least 1"): the ValueError leaves run().
RunMultiBadCount ==
    /\ pc = "idle"
    /\ \E n \in 0..MaxSamples, np \in NumProcArgs \ {NumProcNone} :
          /\ PoolRefuses(PoolSize(np.n))
          /\ num_samples' = n
          /\ num_proc' = np
    /\ timing' = [timing EXCEPT !.pool_startup_start = Now(1)]
    /\ clock' = Now(1)
    /\ pc' = "raised"
    /\ outcome' = [kind |-> "raised", error |-> "ValueError", samples |-> <<>>]
    /\ UNCHANGED <<toolVars, expVars, idxVars, smpVars, ciVars, drawn,
                   USE_GLOBAL_SHARING, cacheInits,
                   parentRngs, loop_i, boot_counts, pool, workers, chunks,
                   taskq, chunkRes, crashes, cacheTransfers>>

\* pool.map is called: the iterable is made a list (which, without global
\* sharing, runs the generator expression and so makes every generator), is
\* cut into batches, and the batches are queued for the workers.
MapStart ==
    /\ pc = "pool_up"
    /\ IF USE_GLOBAL_SHARING
       THEN /\ timing' = [timing EXCEPT !.samples_start = Now(1)]
            /\ clock' = Now(1)
            /\ UNCHANGED parentRngs
       ELSE /\ timing' = [timing EXCEPT !.rng_start = Now(1), !.rng_end = Now(2),
                                        !.samples_start = Now(3)]
            /\ clock' = Now(3)
            /\ parentRngs' = [k \in 1..num_samples |->
                                default_rng(k - 1, Parent, k - 1)]
    /\ LET cs == Slices(Range(num_samples),
                        ChunkSize(num_samples, Len(workers)))
       IN /\ chunks' = cs
          /\ taskq' = [k \in 1..Len(cs) |-> k]
          /\ chunkRes' = [k \in 1..Len(cs) |-> [state |-> "pending", counts |-> <<>>]]
    /\ pc' = "map_wait"
    /\ UNCHANGED <<toolVars, expVars, idxVars, smpVars, ciVars, drawn,
                   USE_GLOBAL_SHARING, cacheInits,
                   num_samples, num_proc, loop_i, boot_counts, pool, workers,
                   crashes, cacheTransfers, outcome>>

\* Mutant: a process that receives the engine builds its cache anew.
EngineReceived_Reinit(inits) == inits + 1

\* The engine arrives in a worker process, inherited or unpickled: the
\* instance comes with its attributes, __init__ (and so _init) is not run.
EngineReceived(inits) == inits

\* Mutant: the workers inherit one generator made in the calling process.
ProcessGlobalRng_Inherited(w) == default_rng(-1, Parent, 0)

\* cls.__rng = np.random.default_rng(), run in worker process w.
ProcessGlobalRng(w) == default_rng(-1, Pid(w), 0)

\* A worker process of a pool with global sharing starts up: it runs the
\* initializer _process_global_init(self), which makes a generator of its
\* own and keeps the engine.
WorkerStart(w) ==
    /\ pool = "up"
    /\ workers[w].state = "starting"
    /\ workers' = [workers EXCEPT
                     ![w].state = "ready",
                     ![w].inits = @ + 1,
                     ![w].rng = ProcessGlobalRng(w),
                     ![w].hasData = TRUE]
    /\ cacheTransfers' = cacheTransfers + 1
    /\ cacheInits' = EngineReceived(cacheInits)
    /\ UNCHANGED <<toolVars, expVars, idxVars, smpVars, ciVars, drawn,
                   USE_GLOBAL_SHARING, pc,
                   num_samples, num_proc, parentRngs, loop_i, boot_counts,
                   pool, chunks, taskq, chunkRes, crashes, timing, clock,
                   outcome>>

\* Mutant: a batch carries the generators of its replicates and no engine.
BatchCarriesEngine_Never == FALSE

\* pool.map(self._sample, rngs): a batch holds the function to call, pickled;
\* the bound method self._sample pickles as the engine it is bound to, while
\* the classmethod _process_global_sample pickles as a reference to the class.
BatchCarriesEngine == ~USE_GLOBAL_SHARING

\* A worker takes the next batch off the queue. Without global sharing the
\* batch comes with the pickled bound method self._sample, engine included.
WorkerTake(w) ==
    /\ pool = "up"
    /\ workers[w].state = "ready"
    /\ workers[w].task = 0
    /\ taskq # <<>>
    /\ workers' = [workers EXCEPT ![w].task = Head(taskq), ![w].done = <<>>]
    /\ taskq' = Tail(taskq)
    /\ cacheTransfers' = IF BatchCarriesEngine THEN cacheTransfers + 1
                         ELSE cacheTransfers
    /\ cacheInits' = IF USE_GLOBAL_SHARING THEN cacheInits
                     ELSE EngineReceived(cacheInits)
    /\ UNCHANGED <<toolVars, expVars, idxVars, smpVars, ciVars, drawn,
                   USE_GLOBAL_SHARING, pc,
                   num_samples, num_proc, parentRngs, loop_i, boot_counts,
                   pool, chunks, chunkRes, crashes, timing, clock, outcome>>

\* Mutant: the generator of a replicate is picked by the worker's slot.
WorkerCount_RngBySlot(w, item) ==
    IF USE_GLOBAL_SHARING
    THEN Count(item, workers[w].rng, workers[w].draws, Pid(w))
    ELSE Count(item, parentRngs[((w - 1) % Len(parentRngs)) + 1], 0, Pid(w))

\* Mutant: a worker goes on drawing where its previous replicate stopped.
WorkerCount_KeepsState(w, item) ==
    IF USE_GLOBAL_SHARING
    THEN Count(item, workers[w].rng, workers[w].draws, Pid(w))
    ELSE Count(item, parentRngs[item + 1], workers[w].draws, Pid(w))

\* Mutant: with global sharing the generator is made from the replicate index.
WorkerCount_SeededByIndex(w, item) ==
    IF USE_GLOBAL_SHARING
    THEN Count(item, default_rng(item, Pid(w), 0), 0, Pid(w))
    ELSE Count(item, parentRngs[item + 1], 0, Pid(w))

\* The count a worker computes for an item of its batch: with global
\* sharing _process_global_sample(sample_id) draws from the worker's own
\* generator, otherwise _sample(rng) draws from the copy it was sent.
WorkerCount(w, item) ==
    IF USE_GLOBAL_SHARING
    THEN Count(item, workers[w].rng, workers[w].draws, Pid(w))
    ELSE Count(item, parentRngs[item + 1], 0, Pid(w))

\* A worker computes the next item of its batch; after the last one the
\* batch's counts go back to the caller.
WorkerSampleOk(w) ==
    /\ pool = "up"
    /\ workers[w].state = "ready"
    /\ workers[w].task # 0
    /\ LET t == workers[w].task
           item == chunks[t][Len(workers[w].done) + 1]
           done == Append(workers[w].done, WorkerCount(w, item))
       IN IF Len(done) = Len(chunks[t])
          THEN /\ workers' = [workers EXCEPT ![w].task = 0, ![w].done = <<>>,
                                             ![w].draws = @ + 1]
               /\ chunkRes' = [chunkRes EXCEPT ![t] = [state |-> "ok", counts |-> done]]
          ELSE /\ workers' = [workers EXCEPT ![w].done = done, ![w].draws = @ + 1]
               /\ UNCHANGED chunkRes
    /\ drawn' = drawn \cup
          {Draw(WorkerCount(w, chunks[workers[w].task][Len(workers[w].done) + 1]))}
    /\ UNCHANGED <<toolVars, expVars, idxVars, smpVars, ciVars,
                   USE_GLOBAL_SHARING, cacheInits, pc,
                   num_samples, num_proc, parentRngs, loop_i, boot_counts,
                   pool, chunks, taskq, crashes, cacheTransfers, timing, clock,
                   outcome>>

\* The function raises on an item: the worker sends the exception back in
\* place of the batch's counts. Only the first exception of a run is
\* followed: it is the one pool.map raises again.
WorkerSampleRaises(w) ==
    /\ pool = "up"
    /\ workers[w].state = "ready"
    /\ workers[w].task # 0
    /\ \A k \in 1..Len(chunkRes) : chunkRes[k].state # "failed"
    /\ chunkRes' = [chunkRes EXCEPT
                      ![workers[w].task] = [state |-> "failed", counts |-> <<>>]]
    /\ workers' = [workers EXCEPT ![w].task = 0, ![w].done = <<>>]
    /\ drawn' = drawn \cup
          {Draw(WorkerCount(w, chunks[workers[w].task][Len(workers[w].done) + 1]))}
    /\ UNCHANGED <<toolVars, expVars, idxVars, smpVars, ciVars,
                   USE_GLOBAL_SHARING, cacheInits, pc,
                   num_samples, num_proc, parentRngs, loop_i, boot_counts,
                   pool, chunks, taskq, crashes, cacheTransfers, timing, clock,
                   outcome>>

\* A worker process dies (killed, out of memory): the batch it held is lost,
\* nothing comes back for it. Deaths are followed up to the first batch that
\* fails or is lost: from then on the run cannot return any more.
WorkerCrash(w) ==
    /\ pool = "up"
    /\ workers[w].state # "dead"
    /\ crashes < MaxCrashes
    /\ \A k \in 1..Len(chunkRes) : chunkRes[k].state \in {"pending", "ok"}
    /\ crashes' = crashes + 1
    /\ workers' = [workers EXCEPT ![w].state = "dead", ![w].task = 0,
                                  ![w].done = <<>>]
    /\ chunkRes' = IF workers[w].task = 0 THEN chunkRes
                   ELSE [chunkRes EXCEPT ![workers[w].task].state = "lost"]
    /\ UNCHANGED <<toolVars, expVars, idxVars, smpVars, ciVars, drawn,
                   USE_GLOBAL_SHARING, cacheInits, pc,
                   num_samples, num_proc, parentRngs, loop_i, boot_counts,
                   pool, chunks, taskq, cacheTransfers, timing, clock, outcome>>

\* The pool replaces a dead worker by a new process in the same slot.
WorkerRespawn(w) ==
    /\ pool = "up"
    /\ workers[w].state = "dead"
    /\ workers' = [workers EXCEPT ![w] = NewWorker(workers[w].gen + 1)]
    /\ UNCHANGED <<toolVars, expVars, idxVars, smpVars, ciVars, drawn,
                   USE_GLOBAL_SHARING, cacheInits, pc,
                   num_samples, num_proc, parentRngs, loop_i, boot_counts,
                   pool, chunks, taskq, chunkRes, crashes, cacheTransfers,
                   timing, clock, outcome>>

\* Mutant: map hands back what has arrived once no batch is being awaited.
MapDone_SkipFailed ==
    \A k \in 1..Len(chunkRes) : chunkRes[k].state \in {"ok", "failed"}

\* pool.map has every batch's counts.
MapDone == \A k \in 1..Len(chunkRes) : chunkRes[k].state = "ok"

\* pool.map returns the counts in the order of the items; the pool is
\* terminated on leaving the with block; run() returns BootstrapResults.
MapReturn ==
    /\ pc = "map_wait"
    /\ MapDone
    /\ boot_counts' = Concat(chunkRes)
    /\ timing' = StampSamplesEnd(timing)
    /\ clock' = Now(1)
    /\ pool' = "terminated"
    /\ pc' = "returned"
    /\ outcome' = [kind |-> "returned", error |-> "none",
                   samples |-> Concat(chunkRes)]
    /\ UNCHANGED <<toolVars, expVars, idxVars, smpVars, ciVars, drawn,
                   USE_GLOBAL_SHARING, cacheInits,
                   num_samples, num_proc, parentRngs, loop_i, workers, chunks,
                   taskq, chunkRes, crashes, cacheTransfers>>

\* pool.map re-raises the first exception a worker sent back; the pool is
\* terminated on leaving the with block and the exception leaves run().
MapRaises ==
    /\ pc = "map_wait"
    /\ \E k \in 1..Len(chunkRes) : chunkRes[k].state = "failed"
    /\ pool' = "terminated"
    /\ pc' = "raised"
    /\ outcome' = [kind |-> "raised", error |-> "Exception", samples |-> <<>>]
    /\ UNCHANGED <<toolVars, expVars, idxVars, smpVars, ciVars, drawn,
                   USE_GLOBAL_SHARING, cacheInits,
                   num_samples, num_proc, parentRngs, loop_i, boot_counts,
                   workers, chunks, taskq, chunkRes, crashes, cacheTransfers,
                   timing, clock>>

RunNext ==
    \/ RunSingle
    \/ SingleSampleOk
    \/ SingleSampleRaises
    \/ SingleReturn
    \/ RunMulti
    \/ RunMultiBadCount
    \/ MapStart
    \/ \E w \in 1..Len(workers) : WorkerStart(w)
    \/ \E w \in 1..Len(workers) : WorkerTake(w)
    \/ \E w \in 1..Len(workers) : WorkerSampleOk(w)
    \/ \E w \in 1..Len(workers) : WorkerSampleRaises(w)
    \/ \E w \in 1..Len(workers) : WorkerCrash(w)
    \/ \E w \in 1..Len(workers) : WorkerRespawn(w)
    \/ MapReturn
    \/ MapRaises

Spec == RunInit /\ [][RunNext]_vars

(***************************************************************************)
(* Claims about Bootstrap.run                                              *)
(***************************************************************************)

\* C8: in every execution mode run() either returns BootstrapResults with
\* exactly num_samples counts, the i-th of them that of replicate i, or hands
\* its caller no results at all; counts that a failed replicate or a dead
\* worker left incomplete are never returned.
C8_AllCountsOrNone ==
    /\ outcome.kind = "returned" =>
          /\ Len(outcome.samples) = num_samples
          /\ \A i \in 1..Len(outcome.samples) : outcome.samples[i].rep = i - 1
          /\ \A k \in 1..Len(chunkRes) : chunkRes[k].state = "ok"
    /\ outcome.kind # "returned" => outcome.samples = <<>>
    /\ pc = "raised" => outcome.kind = "raised"

\* C8 witness: a parallel run returned all of its counts (three or more, some
\* of them in one batch) although a worker process had died.
C8_Witness ==
    /\ outcome.kind = "returned"
    /\ ~num_proc.none
    /\ num_samples >= 3
    /\ crashes > 0
    /\ \E k \in 1..Len(chunks) : Len(chunks[k]) > 1

\* C9: with num_proc = None every replicate is computed in the calling
\* process, no pool is started, and every _sample call gets the one generator
\* made at the start of the run.
C9_SequentialOneRng ==
    (num_proc.none /\ pc # "idle") =>
        /\ pool = "none"
        /\ workers = <<>>
        /\ Len(parentRngs) = 1
        /\ \A k \in 1..Len(boot_counts) :
              /\ boot_counts[k].by = Parent
              /\ boot_counts[k].rng = parentRngs[1]
              /\ boot_counts[k].pos = k - 1

\* C9 witness: a sequential run of three or more replicates has returned.
C9_Witness ==
    /\ num_proc.none
    /\ outcome.kind = "returned"
    /\ Len(outcome.samples) >= 3

\* C10: with num_proc = 0 the pool has as many workers as the machine has
\* processors, with num_proc = k > 0 it has k, under both strategies.
C10_PoolSize ==
    (~num_proc.none /\ num_proc.n >= 0 /\ pc # "idle") =>
        /\ pool # "none"
        /\ Len(workers) = IF num_proc.n = 0 THEN CpuCount ELSE num_proc.n

\* C10 witness: under global sharing, num_proc = 0 has given a pool whose
\* workers, one per processor, have all started.
C10_Witness ==
    /\ USE_GLOBAL_SHARING
    /\ ~num_proc.none /\ num_proc.n = 0
    /\ pool = "up"
    /\ Len(workers) = CpuCount
    /\ \A w \in 1..Len(workers) : workers[w].state = "ready"

(***************************************************************************)
(* Claims about the generators of a parallel run                           *)
(***************************************************************************)

\* What a count is a function of, the cache apart: the generator's stream
\* (fixed by the seed when there is one, otherwise by the entropy the making
\* process got) and how far the stream had been drawn.
Stream(rng) ==
    IF rng.seed >= 0 THEN [seed |-> rng.seed, entropy |-> <<>>]
    ELSE [seed |-> -1, entropy |-> <<rng.owner, rng.serial>>]
Value(count) == [stream |-> Stream(count.rng), pos |-> count.pos]

\* The run uses mp.Pool without global sharing.
PerReplicateRun == ~num_proc.none /\ ~USE_GLOBAL_SHARING /\ pc # "idle"
\* The run uses mp.Pool with global sharing.
GlobalSharingRun == ~num_proc.none /\ USE_GLOBAL_SHARING /\ pc # "idle"

\* Every count computed so far in worker processes, returned or not.
WorkerCounts ==
    UNION {{workers[w].done[k] : k \in 1..Len(workers[w].done)} :
             w \in 1..Len(workers)}
    \cup UNION {{chunkRes[c].counts[k] : k \in 1..Len(chunkRes[c].counts)} :
                  c \in 1..Len(chunkRes)}

\* A batch has left the queue for a worker.
Dispatched == Len(taskq) < Len(chunks)

\* C11: without global sharing the count at position i of the result, and
\* every count a worker computes for replicate i, is drawn from the generator
\* seeded with i from its start, whichever worker computes it; and the
\* generators of all replicates exist from before the first batch goes to a
\* worker.
C11_ReplicateUsesItsSeed ==
    PerReplicateRun =>
        /\ \A c \in WorkerCounts : c.rng.seed = c.rep /\ c.pos = 0
        /\ \A i \in 1..Len(outcome.samples) :
              outcome.samples[i].rng.seed = i - 1 /\ outcome.samples[i].pos = 0
        /\ (Dispatched \/ WorkerCounts # {}) =>
              /\ Len(parentRngs) = num_samples
              /\ \A k \in 1..num_samples : parentRngs[k].seed = k - 1
        /\ pc = "pool_up" => ~Dispatched /\ WorkerCounts = {}

\* C11 witness: a run without global sharing returned three or more counts,
\* the first replicate computed by the second worker and others by another.
C11_Witness ==
    /\ PerReplicateRun
    /\ outcome.kind = "returned"
    /\ Len(outcome.samples) >= 3
    /\ outcome.samples[1].by.slot = 2
    /\ \E i \in 2..Len(outcome.samples) : outcome.samples[i].by.slot = 1

\* The counts of n replicates drawn each from the start of the stream of its
\* own seed: a function of n (and of the cache) alone.
SeededValues(n) ==
    [i \in 1..n |-> [stream |-> [seed |-> i - 1, entropy |-> <<>>], pos |-> 0]]

\* C12: without global sharing the sequence of counts a run returns is a
\* function of the replicate count alone, so any two runs of the engine with
\* the same replicate count return the same sequence, whatever their worker
\* counts and the scheduling of replicates onto workers.
C12_SameCountsEveryRun ==
    (PerReplicateRun /\ outcome.kind = "returned") =>
        [i \in 1..Len(outcome.samples) |-> Value(outcome.samples[i])]
            = SeededValues(num_samples)

\* C12 witness: a run without global sharing returned four or more counts,
\* some computed by a worker that replaced a dead one and some by another
\* worker.
C12_Witness ==
    /\ PerReplicateRun
    /\ outcome.kind = "returned"
    /\ Len(outcome.samples) >= 4
    /\ \E i, j \in 1..Len(outcome.samples) :
          /\ outcome.samples[i].by.gen = 1
          /\ outcome.samples[j].by.slot # outcome.samples[i].by.slot

\* C13: with global sharing every worker process runs the initializer once,
\* before it computes any replicate: from then on it holds the engine and a
\* generator of its own, made from fresh entropy and not from a replicate
\* index; the engine goes to a process at its start only, never with a
\* replicate call.
C13_WorkerInitOnce ==
    GlobalSharingRun =>
        /\ \A w \in 1..Len(workers) :
              /\ workers[w].inits <= 1
              /\ workers[w].state = "starting" =>
                    /\ workers[w].inits = 0
                    /\ workers[w].draws = 0 /\ workers[w].task = 0
              /\ (workers[w].state = "ready" \/ workers[w].draws > 0
                    \/ workers[w].task # 0) =>
                    /\ workers[w].inits = 1
                    /\ workers[w].hasData
                    /\ workers[w].rng = default_rng(-1, Pid(w), 0)
        /\ cacheTransfers <= Len(workers) + crashes
        /\ \A c \in WorkerCounts : c.rng.seed = -1 /\ c.rng.owner = c.by
        /\ \A d \in drawn : d.rng.seed = -1 /\ d.rng.owner = d.by

\* C13 witness: a run with global sharing returned three or more counts, both
\* workers of the pool computed some, and a third process, started in place
\* of a dead one, was initialized as well.
C13_Witness ==
    /\ GlobalSharingRun
    /\ outcome.kind = "returned"
    /\ Len(outcome.samples) >= 3
    /\ Len(workers) = 2
    /\ \A w \in 1..Len(workers) : workers[w].draws > 0
    /\ cacheTransfers = 3

\* C14: in a parallel run no generator stream is drawn from by two processes:
\* with global sharing the generators of the worker processes are pairwise
\* different, and without it the generator of a replicate is given to one
\* worker only, for that replicate only.
C14_NoSharedRng ==
    (~num_proc.none /\ pc # "idle") =>
        /\ \A d1, d2 \in drawn :
              Stream(d1.rng) = Stream(d2.rng) => d1.by = d2.by
        /\ USE_GLOBAL_SHARING =>
              \A v, w \in 1..Len(workers) :
                 (v # w /\ workers[v].inits = 1 /\ workers[w].inits = 1) =>
                     Stream(workers[v].rng) # Stream(workers[w].rng)
        /\ ~USE_GLOBAL_SHARING =>
              /\ \A c1, c2 \in WorkerCounts :
                    Stream(c1.rng) = Stream(c2.rng) => c1 = c2
              /\ \A i, j \in 1..Len(parentRngs) :
                    i # j => Stream(parentRngs[i]) # Stream(parentRngs[j])

\* C14 witness: in a returned parallel run with global sharing three worker
\* processes have drawn, one of them started in place of a dead one.
C14_Witness ==
    /\ GlobalSharingRun
    /\ outcome.kind = "returned"
    /\ Cardinality({d.by : d \in drawn}) >= 3
    /\ \E d \in drawn : d.by.gen = 1

(***************************************************************************)
(* Claims about the cache and the timing of a run                          *)
(***************************************************************************)

\* C15: _init has run exactly once for the engine, inside the constructor
\* (between the two init timestamps) and so before every _sample call; no
\* run, sequential or parallel, makes the calling process or a worker process
\* run it again.
C15_InitOnce ==
    /\ cacheInits = 1
    /\ timing.init_start = NoTiming.init_start
    /\ timing.init_end = NoTiming.init_end
    /\ timing.init_start <= timing.init_end
    /\ pc = "idle" => drawn = {} /\ boot_counts = <<>>
    /\ pc # "idle" =>
          \A t \in {timing.rng_start, timing.pool_startup_start,
                    timing.samples_start} : t = 0 \/ t > timing.init_end

\* C15 witness: in a parallel run the engine went to worker processes
\* three times or more, and the run returned three or more counts.
C15_Witness ==
    /\ ~num_proc.none
    /\ cacheTransfers >= 3
    /\ outcome.kind = "returned"
    /\ Len(outcome.samples) >= 3

\* C19: a run asked for with a negative num_proc fails (the pool refuses the
\* process count with a ValueError) before any worker process exists and
\* before any _sample call is made, and hands its caller no results.
C19_BadCountFailsEarly ==
    (~num_proc.none /\ num_proc.n < 0 /\ pc # "idle") =>
        /\ pc = "raised"
        /\ outcome = [kind |-> "raised", error |-> "ValueError",
                      samples |-> <<>>]
        /\ drawn = {}
        /\ boot_counts = <<>>
        /\ pool = "none" /\ workers = <<>> /\ chunks = <<>>
        /\ parentRngs = <<>>

\* C19 witness: run(3 or more, -1) of an engine with global sharing raised.
C19_Witness ==
    /\ USE_GLOBAL_SHARING
    /\ ~num_proc.none /\ num_proc.n = -1
    /\ num_samples >= 3
    /\ pc = "raised"

\* A phase has been timed after the constructor was over.
Recorded(start, end) == start > NoTiming.init_end /\ start <= end
\* A phase has not been timed: its two attributes are as __init__ left them.
NotRecorded(start, end) == start = 0 /\ end = 0

\* C20 as stated: after run() returns, in every mode, all four phases have a
\* start and an end timestamp, start not after end (cache initialization
\* at construction, the other three during the run).
C20_AllFourRecorded ==
    outcome.kind = "returned" =>
        /\ timing.init_start > 0 /\ timing.init_start <= timing.init_end
        /\ Recorded(timing.rng_start, timing.rng_end)
        /\ Recorded(timing.pool_startup_start, timing.pool_startup_end)
        /\ Recorded(timing.samples_start, timing.samples_end)

\* C20 amended: after run() returns the cache initialization (timed in the
\* constructor) and the sampling phase are recorded in every mode; the pool
\* startup is recorded in the two pool modes and left at 0.0 by a sequential
\* run; the generator initialization is recorded by a sequential run and
\* without global sharing, and left at 0.0 with global sharing; for every
\* phase start is not after end, and the recorded phases follow each other.
C20_TimingRecorded ==
    outcome.kind = "returned" =>
        /\ timing.init_start > 0 /\ timing.init_start <= timing.init_end
        /\ Recorded(timing.samples_start, timing.samples_end)
        /\ IF num_proc.none
           THEN /\ NotRecorded(timing.pool_startup_start,
                               timing.pool_startup_end)
                /\ Recorded(timing.rng_start, timing.rng_end)
                /\ timing.rng_end <= timing.samples_start
           ELSE /\ Recorded(timing.pool_startup_start, timing.pool_startup_end)
                /\ timing.pool_startup_end <= timing.samples_start
                /\ IF USE_GLOBAL_SHARING
                   THEN NotRecorded(timing.rng_start, timing.rng_end)
                   ELSE /\ Recorded(timing.rng_start, timing.rng_end)
                        /\ timing.pool_startup_end <= timing.rng_start
                        /\ timing.rng_end <= timing.samples_start

\* C20 witness: a run with global sharing returned its counts, with the pool
\* startup timed and no generator initialization timed.
C20_Witness ==
    /\ GlobalSharingRun
    /\ outcome.kind = "returned"
    /\ num_samples >= 1
    /\ Recorded(timing.pool_startup_start, timing.pool_startup_end)
    /\ NotRecorded(timing.rng_start, timing.rng_end)

\* The batches that have left the queue for a worker.
BatchesSent == Len(chunks) - Len(taskq)

MaxSmpRows == 2
\* Bound: rows of the FAR decision table of the flat engine.
MaxFlatRows == 3
\* Bound: _sample calls made on one engine.
MaxSmpCalls == 2

\* exp.user_list(), exp.finger_list(), exp.sample_list()
SmpUsers == <<1, 2>>
SmpFingers == <<5>>
SmpSamples == <<8, 9>>

SeqRange(q) == {q[k] : k \in 1..Len(q)}

\* The column lists the two indices are built on, in loop-nesting order.
fa_set_tuple ==
    <<"VerifyUser", "EnrollUser", "VerifyFinger", "EnrollFinger",
      "VerifySample">>
fr_set_tuple == <<"EnrollUser", "EnrollFinger", "VerifySample">>

\* The sets of at most n elements of S.
RECURSIVE SubsetsUpTo(_, _)
SubsetsUpTo(S, n) ==
    IF n = 0 THEN {{}}
    ELSE LET smaller == SubsetsUpTo(S, n - 1)
         IN smaller \cup {s \cup {x} : s \in smaller, x \in S}

\* The rows of a table, one after the other.
RECURSIVE SetToSeq(_)
SetToSeq(S) ==
    IF S = {} THEN <<>>
    ELSE LET x == CHOOSE y \in S : TRUE IN <<x>> \o SetToSeq(S \ {x})

\* exp.fa_table(): the false accepts, its columns in the order of the
\* decision table.  The rows of an experiment that passed check() are impostor
\* attempts; nothing keeps an engine from being built on one that did not.
FaTableColumns ==
    <<"EnrollUser", "EnrollFinger", "VerifyUser", "VerifyFinger",
      "VerifySample">>
FaRows ==
    {[c \in SeqRange(FaTableColumns) |->
        CASE c = "EnrollUser" -> u[1] [] c = "EnrollFinger" -> ef
          [] c = "VerifyUser" -> u[2] [] c = "VerifyFinger" -> vf
          [] c = "VerifySample" -> vs] :
       u \in SeqRange(SmpUsers) \X SeqRange(SmpUsers),
       ef \in SeqRange(SmpFingers), vf \in SeqRange(SmpFingers),
       vs \in SeqRange(SmpSamples)}
FaTables ==
    {[columns |-> FaTableColumns, rows |-> SetToSeq(rs)] :
        rs \in SubsetsUpTo(FaRows, MaxSmpRows)}

\* exp.fr_table(): the false rejects, rows of genuine attempts.
FrTableColumns == <<"EnrollUser", "EnrollFinger", "VerifySample">>
FrRows ==
    {[c \in SeqRange(FrTableColumns) |->
        CASE c = "EnrollUser" -> eu [] c = "EnrollFinger" -> ef
          [] c = "VerifySample" -> vs] :
       eu \in SeqRange(SmpUsers), ef \in SeqRange(SmpFingers),
       vs \in SeqRange(SmpSamples)}
FrTables ==
    {[columns |-> FrTableColumns, rows |-> SetToSeq(rs)] :
        rs \in SubsetsUpTo(FrRows, MaxSmpRows)}

\* The Decision column of exp.far_decisions(), one or more rows.
FlatDecisions == SeqsUpTo({"ACCEPT", "REJECT"}, MaxFlatRows) \ {<<>>}

\* BootstrapFARFlat._init
FlatInit(decisions) ==
    [NoCache EXCEPT
       !.far_list = [i \in 1..Len(decisions) |-> decisions[i] = "ACCEPT"]]

\* Mutant: the prefix index is built on the columns in the table's order.
FarInit_TrieInTableOrder(fa_table) ==
    [NoCache EXCEPT
       !.fa_set = DataFrameSetAccess(fa_table,
                                     [given |-> TRUE, list |-> fa_set_tuple]),
       !.fa_trie = DataFrameCountTrieAccess(fa_table, FaTableColumns),
       !.users_list = SmpUsers,
       !.fingers_list = SmpFingers,
       !.samples_list = SmpSamples]

\* BootstrapFullFARHierarchy._init
FarInit(fa_table) ==
    [NoCache EXCEPT
       !.fa_set = DataFrameSetAccess(fa_table,
                                     [given |-> TRUE, list |-> fa_set_tuple]),
       !.fa_trie = DataFrameCountTrieAccess(fa_table, fa_set_tuple),
       !.users_list = SmpUsers,
       !.fingers_list = SmpFingers,
       !.samples_list = SmpSamples]

\* BootstrapFullFRRHierarchy._init
FrrInit(fr_table) ==
    [NoCache EXCEPT
       !.fa_set = DataFrameSetAccess(fr_table,
                                     [given |-> TRUE, list |-> fr_set_tuple]),
       !.fa_trie = DataFrameCountTrieAccess(fr_table, fr_set_tuple),
       !.users_list = SmpUsers,
       !.fingers_list = SmpFingers,
       !.samples_list = SmpSamples]

\* An engine of one of the three strategies, as constructed.
SmpInit ==
    /\ ExpIdle /\ IdxIdle /\ RunIdle /\ CIIdle /\ ToolsIdle
    /\ \/ /\ strategy = "flat"
          /\ \E decisions \in FlatDecisions : cache = FlatInit(decisions)
          /\ smpTable = NoSmpTable
       \/ /\ strategy = "far"
          /\ \E fa_table \in FaTables :
                /\ cache = FarInit(fa_table)
                /\ smpTable = fa_table
       \/ /\ strategy = "frr"
          /\ \E fr_table \in FrTables :
                /\ cache = FrrInit(fr_table)
                /\ smpTable = fr_table
    /\ cacheBuilt = cache
    /\ frames = <<>>
    /\ sample = NoSample
    /\ smpCalls = 0
    /\ smpRet = NoReturn
    /\ smpPresent = 0
    /\ smpLast = NoLookup

\* The positions one resample of n entries draws: n of them, with
\* replacement.
BootPositions(n) == [1..n -> 1..n]

\* fpsutils.boot_sample(arr, rng=rng): the entries at the drawn positions.
boot_sample(arr, pos) == [i \in 1..Len(arr) |-> arr[pos[i]]]

\* Mutant: the resample is written over the array it was drawn from.
ArgAfterBootSample_InPlace(arr, pos) == boot_sample(arr, pos)

\* The array handed to boot_sample, after the call: as it was.
ArgAfterBootSample(arr, pos) == arr

\* Mutant: the sum tells only whether some entry is true.
np_sum_Any(bools) == IF \E i \in 1..Len(bools) : bools[i] THEN 1 ELSE 0

\* np.sum of an array or list of booleans
np_sum(bools) == Cardinality({i \in 1..Len(bools) : bools[i]})

\* BootstrapFARFlat._sample: one resample of far_list, summed.
SampleFlat ==
    /\ strategy = "flat"
    /\ smpCalls < MaxSmpCalls
    /\ \E pos \in BootPositions(Len(cache.far_list)) :
          /\ smpRet' = [returned |-> TRUE,
                        count |-> np_sum(boot_sample(cache.far_list, pos)),
                        positions |-> pos]
          /\ cache' = [cache EXCEPT !.far_list = ArgAfterBootSample(@, pos)]
    /\ smpCalls' = smpCalls + 1
    /\ UNCHANGED <<toolVars, expVars, idxVars, runVars, ciVars, strategy, cacheBuilt,
                   frames, sample, smpTable, smpPresent, smpLast>>

\* Mutant: the verify fingers are drawn before the template users.
LevelLists_FingerBeforeTemplate(st) ==
    IF st = "far"
    THEN <<"users_list", "fingers_list", "users_list", "fingers_list",
           "samples_list">>
    ELSE <<"users_list", "fingers_list", "samples_list">>

\* The attributes the nested loops resample, outermost loop first.
LevelLists(st) ==
    IF st = "far"
    THEN <<"users_list", "users_list", "fingers_list", "fingers_list",
           "samples_list">>
    ELSE <<"users_list", "fingers_list", "samples_list">>

\* Mutant: a level is drawn once, whatever the length of its list.
Frame_OneDraw(k, pos) ==
    [draws |-> SubSeq(boot_sample(cache[LevelLists(strategy)[k]], pos), 1, 1),
     i |-> 0]

\* Mutant: the template users are drawn from the users other than the verify
\* user.
Frame_NoSelfMatch(k, pos) ==
    LET full == cache[LevelLists(strategy)[k]]
        v == frames[1].draws[frames[1].i + 1]
        Other(x) == x # v
        others == IF strategy = "far" /\ k = 2 THEN SelectSeq(full, Other)
                ELSE full
    IN [draws |-> [i \in 1..Len(others) |-> others[((pos[i] - 1) % Len(others)) + 1]],
        i |-> 0]

\* The loop entered at level k: for x in fpsutils.boot_sample(list, rng=rng)
Frame(k, pos) ==
    [draws |-> boot_sample(cache[LevelLists(strategy)[k]], pos), i |-> 0]
CacheAfterDraw(k, pos) ==
    [cache EXCEPT ![LevelLists(strategy)[k]] = ArgAfterBootSample(@, pos)]
LevelPositions(k) == BootPositions(Len(cache[LevelLists(strategy)[k]]))

\* The loop variables once the innermost loop under way has moved on to its
\* next value: (v, t, fv, ft, a), or (u, f, s), as far as the nesting goes.
NextCandidates ==
    [k \in 1..Len(frames) |->
        frames[k].draws[frames[k].i + (IF k = Len(frames) THEN 1 ELSE 0)]]
Advanced == [frames EXCEPT ![Len(frames)].i = @ + 1]
InLoop ==
    /\ frames # <<>>
    /\ frames[Len(frames)].i < Len(frames[Len(frames)].draws)

\* _sample of a hierarchy is called: the outermost loop is entered.
SampleBegin ==
    /\ strategy \in {"far", "frr"}
    /\ frames = <<>>
    /\ smpCalls < MaxSmpCalls
    /\ \E pos \in LevelPositions(1) :
          /\ frames' = <<Frame(1, pos)>>
          /\ cache' = CacheAfterDraw(1, pos)
    /\ sample' = NoSample
    /\ smpRet' = NoReturn
    /\ smpCalls' = smpCalls + 1
    /\ smpPresent' = 0
    /\ smpLast' = NoLookup
    /\ UNCHANGED <<toolVars, expVars, idxVars, runVars, ciVars, strategy, cacheBuilt,
                   smpTable>>

\* `if not fa_trie.isin(prefix): continue`
SampleSkip ==
    /\ InLoop
    /\ Len(frames) < Len(LevelLists(strategy))
    /\ ~trie_isin(cache.fa_trie, NextCandidates)
    /\ frames' = Advanced
    /\ smpLast' = [kind |-> "skip", tuple |-> NextCandidates,
                   answer |-> FALSE]
    /\ UNCHANGED <<toolVars, expVars, idxVars, runVars, ciVars, strategy, cache,
                   cacheBuilt, sample, smpCalls, smpRet, smpTable,
                   smpPresent>>

\* The prefix is in fa_trie: the next inner loop is entered.
SampleDescend ==
    /\ InLoop
    /\ Len(frames) < Len(LevelLists(strategy))
    /\ trie_isin(cache.fa_trie, NextCandidates)
    /\ \E pos \in LevelPositions(Len(frames) + 1) :
          /\ frames' = Append(Advanced, Frame(Len(frames) + 1, pos))
          /\ cache' = CacheAfterDraw(Len(frames) + 1, pos)
    /\ smpLast' = [kind |-> "descend", tuple |-> NextCandidates,
                   answer |-> TRUE]
    /\ UNCHANGED <<toolVars, expVars, idxVars, runVars, ciVars, strategy, cacheBuilt,
                   sample, smpCalls, smpRet, smpTable, smpPresent>>

\* The columns the engine's indices are built on.
StrategyColumns == IF strategy = "far" THEN fa_set_tuple ELSE fr_set_tuple

\* The table has a row with these values in these columns.
RowOf(table, cols, values) ==
    \E j \in 1..Len(table.rows) :
       \A k \in 1..Len(cols) : table.rows[j][cols[k]] = values[k]

\* The innermost loop: sample.append(fa_set.isin(query))
SampleQuery ==
    /\ InLoop
    /\ Len(frames) = Len(LevelLists(strategy))
    /\ frames' = Advanced
    /\ sample' = [n |-> sample.n + 1,
                  sum |-> sample.sum +
                      (IF set_isin(cache.fa_set, NextCandidates)
                       THEN 1 ELSE 0)]
    /\ smpLast' = [kind |-> "query", tuple |-> NextCandidates,
                   answer |-> set_isin(cache.fa_set, NextCandidates)]
    /\ smpPresent' = smpPresent +
          (IF RowOf(smpTable, StrategyColumns, NextCandidates) THEN 1 ELSE 0)
    /\ UNCHANGED <<toolVars, expVars, idxVars, runVars, ciVars, strategy, cache,
                   cacheBuilt, smpCalls, smpRet, smpTable>>

\* An inner loop has gone through its resample: back to the enclosing loop.
SampleLoopEnd ==
    /\ Len(frames) > 1
    /\ ~InLoop
    /\ frames' = SubSeq(frames, 1, Len(frames) - 1)
    /\ smpLast' = NoLookup
    /\ UNCHANGED <<toolVars, expVars, idxVars, runVars, ciVars, strategy, cache,
                   cacheBuilt, sample, smpCalls, smpRet, smpTable,
                   smpPresent>>

\* The outermost loop has gone through its resample: return np.sum(sample)
SampleReturn ==
    /\ Len(frames) = 1
    /\ ~InLoop
    /\ frames' = <<>>
    /\ smpRet' = [returned |-> TRUE, count |-> sample.sum, positions |-> <<>>]
    /\ smpLast' = NoLookup
    /\ UNCHANGED <<toolVars, expVars, idxVars, runVars, ciVars, strategy, cache,
                   cacheBuilt, sample, smpCalls, smpTable, smpPresent>>

SmpNext ==
    \/ SampleFlat
    \/ SampleBegin
    \/ SampleSkip
    \/ SampleDescend
    \/ SampleQuery
    \/ SampleLoopEnd
    \/ SampleReturn

SpecSample == SmpInit /\ [][SmpNext]_vars

(***************************************************************************)
(* Claims about _sample                                                    *)
(***************************************************************************)

\* C16: a _sample call of the flat, the full FAR or the full FRR strategy
\* leaves the cache as _init built it (membership index, prefix index, axis
\* lists, per-row outcomes), at every point of every call and after any
\* number of calls.
C16_CacheUnchanged == cache = cacheBuilt

\* C16 witness: the second _sample call of a hierarchy engine has returned a
\* count that is not zero, having queried tuples that are in the membership
\* index and tuples that are not.
C16_Witness ==
    /\ strategy \in {"far", "frr"}
    /\ smpCalls = 2
    /\ smpRet.returned /\ smpRet.count > 0
    /\ sample.n > sample.sum

\* The rows of the flat engine's table whose decision is ACCEPT.
AcceptRows == {j \in 1..Len(cache.far_list) : cache.far_list[j]}

\* C18: one replicate of the flat strategy draws N row positions out of
\* 1..N, N the number of rows of the FAR table, with replacement, and returns
\* how many of the drawn positions are ACCEPT rows: a number from 0 to N, and
\* exactly k when the table has one ACCEPT row and that row is drawn k times.
C18_FlatCount ==
    (strategy = "flat" /\ smpRet.returned) =>
        LET N == Len(cache.far_list)
            pos == smpRet.positions
        IN /\ pos \in [1..N -> 1..N]
           /\ smpRet.count = Cardinality({i \in 1..N : pos[i] \in AcceptRows})
           /\ smpRet.count >= 0 /\ smpRet.count <= N
           /\ \A r \in 1..N :
                 AcceptRows = {r} =>
                    smpRet.count = Cardinality({i \in 1..N : pos[i] = r})

\* C18 witness: a table of three rows with one ACCEPT row, which one
\* replicate drew twice (and returned 2).
C18_Witness ==
    /\ strategy = "flat" /\ smpRet.returned
    /\ Len(cache.far_list) = 3
    /\ Cardinality(AcceptRows) = 1
    /\ Cardinality({i \in 1..3 : smpRet.positions[i] \in AcceptRows}) = 2
    /\ smpRet.count = 2

\* The values the loops under way hold at their first k levels, the loops
\* that enclose another at the value they entered it for.
LoopValues(k) == [j \in 1..k |-> frames[j].draws[frames[j].i]]

\* The table has a row that starts with these values, in these columns.
HasPrefix(table, cols, values) ==
    \E j \in 1..Len(table.rows) :
       \A k \in 1..Len(values) : table.rows[j][cols[k]] = values[k]

\* Every loop under way goes through a resample of its axis: as many draws
\* as the axis has entries, each of them an entry of the axis.
DrawnFrom(axes) ==
    /\ Len(frames) <= Len(axes)
    /\ \A k \in 1..Len(frames) :
          /\ Len(frames[k].draws) = Len(axes[k])
          /\ SeqRange(frames[k].draws) \subseteq SeqRange(axes[k])

\* A loop is under way inside another only for a partial tuple which the
\* prefix index holds, and which starts a row of the table.
InnerOnlyConfirmed(cols) ==
    \A k \in 2..Len(frames) :
       /\ trie_isin(cache.fa_trie, LoopValues(k - 1))
       /\ HasPrefix(smpTable, cols, LoopValues(k - 1))

\* The count of the call is the number of the queried tuples that are rows
\* of the table, while the call runs and when it has returned.
CountsRows(cols) ==
    /\ sample.sum = smpPresent
    /\ sample.n >= sample.sum
    /\ smpLast.kind = "query" =>
          /\ Len(smpLast.tuple) = Len(cols)
          /\ smpLast.answer = RowOf(smpTable, cols, smpLast.tuple)
          /\ smpLast.answer = (smpLast.tuple \in cache.fa_set)
    /\ (smpRet.returned /\ frames = <<>>) => smpRet.count = smpPresent

C23_SkipLosesNothing ==
    strategy \in {"far", "frr"} =>
        /\ \A q \in cache.fa_set :
              \A k \in 1..Len(q) : trie_isin(cache.fa_trie, SubSeq(q, 1, k))
        /\ smpLast.kind = "skip" =>
              /\ Len(frames) = Len(smpLast.tuple)
              /\ LoopValues(Len(frames)) = smpLast.tuple
              /\ ~HasPrefix(smpTable, StrategyColumns, smpLast.tuple)
              /\ \A q \in cache.fa_set :
                    SubSeq(q, 1, Len(smpLast.tuple)) # smpLast.tuple

\* C23 witness: the full FAR hierarchy has skipped a (verify user, template
\* user) pair whose verify user starts a row of the table, after a tuple of
\* the same call was found in the membership index.
C23_Witness ==
    /\ strategy = "far"
    /\ smpLast.kind = "skip"
    /\ Len(smpLast.tuple) = 2
    /\ sample.sum >= 1

\* The rows of the false-accept table are impostor attempts, as those of an
\* experiment that passed check() are.
ImpostorRowsOnly ==
    \A j \in 1..Len(smpTable.rows) :
       smpTable.rows[j].EnrollUser # smpTable.rows[j].VerifyUser

\* The verify user of the tuple is its template user (and, the two fingers
\* being drawn from one list of one finger, the verify finger its enroll
\* finger).
SelfMatch(tuple) ==
    /\ Len(tuple) >= 2
    /\ tuple[1] = tuple[2]
    /\ Len(tuple) >= 4 => tuple[3] = tuple[4]

MaxCISamples == 4
\* The values of the counts.
CICountValues == {0, 1, 3}
\* The confidence_percent arguments.
ConfidencePercents == 0..100

\* Percentile ranks are kept in halves of a percent (2.5 is 5), percentile
\* values in 200ths of a count, so that both stay whole numbers.
HalfPercents(percent) == 2 * percent

\* Mutant: the division by two drops the remainder.
ci_percent_lower_FloorDiv(confidence_percent) ==
    HalfPercents((100 - confidence_percent) \div 2)

\* ci_percent_lower = (100 - confidence_percent) / 2, in halves of a percent
ci_percent_lower(confidence_percent) == 100 - confidence_percent

\* ci_percent_upper = 100 - ci_percent_lower, in halves of a percent
ci_percent_upper(lower) == HalfPercents(100) - lower

\* a with x put in before its first entry that is larger.
RECURSIVE Insert(_, _)
Insert(a, x) ==
    IF a = <<>> THEN <<x>>
    ELSE IF x <= Head(a) THEN <<x>> \o a
    ELSE <<Head(a)>> \o Insert(Tail(a), x)

\* The entries of a in ascending order.
RECURSIVE Sorted(_)
Sorted(a) == IF a = <<>> THEN <<>> ELSE Insert(Sorted(Tail(a)), Head(a))

\* np.percentile(a, q), q in halves of a percent, the result in 200ths:
\* linear interpolation between the two entries of the sorted data next to
\* the position q/100 * (n - 1).
np_percentile(a, q) ==
    LET s == Sorted(a)
        at == q * (Len(s) - 1)
        below == (at \div 200) + 1
        frac == at % 200
    IN 200 * s[below] +
       (IF frac = 0 THEN 0 ELSE frac * (s[below + 1] - s[below]))

\* Mutant: the data is sorted where it is.
PercentileInput_Sorted(a) == Sorted(a)

\* The list handed to np.percentile, after the call: np.percentile works on
\* an array made from it.
PercentileInput(a) == a

\* A BootstrapResults holding one or more counts.
CIInit ==
    /\ ExpIdle /\ IdxIdle /\ RunIdle /\ SmpIdle /\ ToolsIdle
    /\ ci_samples \in SeqsUpTo(CICountValues, MaxCISamples) \ {<<>>}
    /\ ciCall = NoCICall

\* BootstrapResults.confidence_interval(confidence_percent)
confidence_interval ==
    /\ ~ciCall.on
    /\ \E confidence_percent \in ConfidencePercents :
          LET lo == ci_percent_lower(confidence_percent)
              hi == ci_percent_upper(lo)
          IN ciCall' = [on |-> TRUE,
                        confidence_percent |-> confidence_percent,
                        before |-> ci_samples,
                        ci_percent_lower |-> lo,
                        ci_percent_upper |-> hi,
                        lower |-> np_percentile(ci_samples, lo),
                        upper |-> np_percentile(ci_samples, hi)]
    /\ ci_samples' = PercentileInput(ci_samples)
    /\ UNCHANGED <<toolVars, expVars, idxVars, runVars, smpVars>>

\* The caller has the interval.
CIReturn ==
    /\ ciCall.on
    /\ ciCall' = NoCICall
    /\ UNCHANGED <<toolVars, expVars, idxVars, runVars, smpVars, ci_samples>>

CINext == confidence_interval \/ CIReturn

SpecCI == CIInit /\ [][CINext]_vars

\* The smallest and the largest entry of a list of counts.
MinOf(a) == CHOOSE x \in SeqRange(a) : \A y \in SeqRange(a) : x <= y
MaxOf(a) == CHOOSE x \in SeqRange(a) : \A y \in SeqRange(a) : x >= y

\* C17: confidence_interval(c), c in 0..100, returns the percentiles of the
\* counts at the ranks (100 - c)/2 and 100 - (100 - c)/2: the ranks sum to
\* 100, the lower rank is not above the upper one, the lower bound is not
\* above the upper bound (both within the range of the counts, and the
\* smallest and largest count for c = 100), the ranks are 2.5 and 97.5 for
\* c = 95, and the stored counts are as before the call.
C17_PercentileInterval ==
    ciCall.on =>
        LET c == ciCall.confidence_percent
            lo == ciCall.ci_percent_lower
            hi == ciCall.ci_percent_upper
        IN /\ 2 * lo = HalfPercents(100 - c)
           /\ lo + hi = HalfPercents(100)
           /\ lo <= hi
           /\ ciCall.lower = np_percentile(ciCall.before, lo)
           /\ ciCall.upper = np_percentile(ciCall.before, hi)
           /\ ciCall.lower <= ciCall.upper
           /\ 200 * MinOf(ciCall.before) <= ciCall.lower
           /\ ciCall.upper <= 200 * MaxOf(ciCall.before)
           /\ c = 100 => /\ ciCall.lower = 200 * MinOf(ciCall.before)
                         /\ ciCall.upper = 200 * MaxOf(ciCall.before)
           /\ c = 0 => ciCall.lower = ciCall.upper
           /\ c = 95 => lo = 5 /\ hi = 195
           /\ ci_samples = ciCall.before

\* C17 witness: confidence_interval(95) of four counts that are not in
\* ascending order, with a lower bound below the upper bound.
C17_Witness ==
    /\ ciCall.on
    /\ ciCall.confidence_percent = 95
    /\ Len(ciCall.before) = 4
    /\ ciCall.before # Sorted(ciCall.before)
    /\ ciCall.lower < ciCall.upper

(***************************************************************************)
(* Fake HAL config editor (camera/app/cros_camera_app/fake_hal.py)         *)
(***************************************************************************)

\* Bound: cameras in the config.
MaxCameras == 2
\* The camera ids of the config the process starts with: one that is not
\* positive, and one that leaves a smaller positive id unused.
HalStartIds == {0, 2}

\* _RESOLUTIONS, cut down to two entries; the frame rates are left out.
RESOLUTIONS == <<<<320, 180>>, <<640, 480>>>>

\* The format filter a caller passes: the resolutions to keep.
FormatFilters == {{<<640, 480>>}}

\* The frame_path argument of the calls: a path (the cameras of the config
\* the process starts with have none, and show the test pattern).
FramePaths == {"/var/cache/camera/frame.y4m"}

\* _generate_supported_formats
generate_supported_formats(should_keep) ==
    LET Kept(r) == r \in should_keep IN SelectSeq(RESOLUTIONS, Kept)

\* json.dumps(config, indent=2): the booleans are written as true and false.
json_dumps(config) ==
    [i \in 1..Len(config.cameras) |->
        [config.cameras[i] EXCEPT
           !.connected = IF @ THEN "true" ELSE "false"]]

\* _load_json: the text parsed into new objects.
load_json(s) ==
    [cameras |-> [i \in 1..Len(s) |-> [s[i] EXCEPT !.connected = (@ = "true")]]]

\* _load_config: the module's own _EMPTY_CONFIG object when there is no file.
load_config ==
    IF ~configFile.exists THEN EMPTY_CONFIG ELSE load_json(configFile.text)

\* The dict the caller of _load_config holds is the object _EMPTY_CONFIG.
LoadedIsEmptyConfig == ~configFile.exists

\* The camera ids of a config.
UsedIds(config) == {config.cameras[i].id : i \in 1..Len(config.cameras)}

\* The camera filters a caller passes. A filter is only ever applied to the
\* ids of the cameras of the loaded config, so it is given by the set of those
\* ids that it accepts.
CameraFilters(config) == SUBSET UsedIds(config)

\* Mutant: the next id is the number of cameras plus one.
get_next_available_id_Count(config) == Len(config.cameras) + 1

RECURSIVE NextIdFrom(_, _)
NextIdFrom(used_ids, next_id) ==
    IF next_id \in used_ids THEN NextIdFrom(used_ids, next_id + 1)
    ELSE next_id

\* _get_next_available_id
get_next_available_id(config) == NextIdFrom(UsedIds(config), 1)

\* The cameras a config may hold before the first call: distinct ids.
HalCameras ==
    {[id |-> i, connected |-> c, supported_formats |-> RESOLUTIONS,
      frames |-> <<>>] : i \in HalStartIds, c \in BOOLEAN}
HalConfigs ==
    {[cameras |-> cs] :
        cs \in {q \in SeqsUpTo(HalCameras, MaxCameras) :
                  \A i, j \in 1..Len(q) : i # j => q[i].id # q[j].id}}

\* A process starts: the module is imported, the config file is absent or
\* holds a config written earlier.
HalInit ==
    /\ ExpIdle /\ IdxIdle /\ RunIdle /\ SmpIdle /\ CIIdle
    /\ MrgIdle /\ SrvIdle /\ GenIdle
    /\ EMPTY_CONFIG = [cameras |-> <<>>]
    /\ \/ configFile = NoFile
       \/ \E config \in HalConfigs :
             configFile = [exists |-> TRUE, text |-> json_dumps(config)]
    /\ halLast = NoHalOp

\* _save_config(config), config being the dict the caller loaded and changed
\* in place.
SaveConfig(config) ==
    /\ configFile' = [exists |-> TRUE, text |-> json_dumps(config)]
    /\ EMPTY_CONFIG' = IF LoadedIsEmptyConfig THEN config ELSE EMPTY_CONFIG

\* add_camera
AddCamera ==
    /\ Len(load_config.cameras) < MaxCameras
    /\ \E should_keep \in FormatFilters, frame_path \in FramePaths :
          LET config == load_config
              camera_id == get_next_available_id(config)
              new_camera ==
                  [id |-> camera_id, connected |-> TRUE,
                   supported_formats |->
                       generate_supported_formats(should_keep),
                   frames |-> IF frame_path = "None" THEN <<>>
                              ELSE <<frame_path>>]
          IN /\ SaveConfig([config EXCEPT
                              !.cameras = Append(@, new_camera)])
             /\ halLast' = [op |-> "add", loaded |-> config.cameras,
                            sel |-> {}]
    /\ UNCHANGED <<bootVars, mrgVars, srvVars, genVars>>

\* remove_cameras
RemoveCameras ==
    /\ \E should_remove \in CameraFilters(load_config) :
          LET config == load_config
              Kept(c) == c.id \notin should_remove
              kept_cameras == SelectSeq(config.cameras, Kept)
          IN /\ SaveConfig([config EXCEPT !.cameras = kept_cameras])
             /\ halLast' = [op |-> "remove", loaded |-> config.cameras,
                            sel |-> should_remove]
    /\ UNCHANGED <<bootVars, mrgVars, srvVars, genVars>>

\* connect_cameras
ConnectCameras ==
    /\ \E should_connect \in CameraFilters(load_config) :
          LET config == load_config
              Connect(cam) ==
                  IF ~cam.connected /\ cam.id \in should_connect
                  THEN [cam EXCEPT !.connected = TRUE] ELSE cam
          IN /\ SaveConfig([config EXCEPT
                              !.cameras = [i \in 1..Len(@) |-> Connect(@[i])]])
             /\ halLast' = [op |-> "connect", loaded |-> config.cameras,
                            sel |-> should_connect]
    /\ UNCHANGED <<bootVars, mrgVars, srvVars, genVars>>

\* disconnect_cameras
DisconnectCameras ==
    /\ \E should_disconnect \in CameraFilters(load_config) :
          LET config == load_config
              Disconnect(cam) ==
                  IF cam.connected /\ cam.id \in should_disconnect
                  THEN [cam EXCEPT !.connected = FALSE] ELSE cam
          IN /\ SaveConfig([config EXCEPT
                              !.cameras =
                                  [i \in 1..Len(@) |-> Disconnect(@[i])]])
             /\ halLast' = [op |-> "disconnect", loaded |-> config.cameras,
                            sel |-> should_disconnect]
    /\ UNCHANGED <<bootVars, mrgVars, srvVars, genVars>>

\* The config file is deleted while the process lives.
DeleteConfigFile ==
    /\ configFile.exists
    /\ configFile' = NoFile
    /\ halLast' = [op |-> "delete", loaded |-> <<>>, sel |-> {}]
    /\ UNCHANGED <<bootVars, mrgVars, srvVars, genVars, EMPTY_CONFIG>>

HalNext ==
    \/ AddCamera
    \/ RemoveCameras
    \/ ConnectCameras
    \/ DisconnectCameras
    \/ DeleteConfigFile

SpecFakeHal == HalInit /\ [][HalNext]_vars

(***************************************************************************)
(* Claims about the fake HAL config editor                                 *)
(***************************************************************************)

\* C26: whenever the config file does not exist, _load_config returns a
\* config with an empty camera list, whatever calls of add_camera,
\* remove_cameras, connect_cameras and disconnect_cameras and whatever
\* deletions of the file the process has seen.
C26_MissingFileLoadsEmpty ==
    ~configFile.exists => load_config = [cameras |-> <<>>]

\* C26 witness: the file is gone again after an add_camera that found none,
\* and _load_config returns a config with the camera that call added.
C26_StaleWitness ==
    /\ ~configFile.exists
    /\ halLast.op = "delete"
    /\ Len(load_config.cameras) = 1
    /\ load_config.cameras[1].id = 1

\* The cameras of the config file, as the last call saved them.
SavedCameras == load_json(configFile.text).cameras

PairwiseDistinct(cameras) ==
    \A i, j \in 1..Len(cameras) : i # j => cameras[i].id # cameras[j].id

\* The smallest positive integer that is no camera's id.
SmallestUnused(cameras) ==
    CHOOSE n \in 1..(Len(cameras) + 1) :
       /\ \A i \in 1..Len(cameras) : cameras[i].id # n
       /\ \A m \in 1..(n - 1) : \E i \in 1..Len(cameras) : cameras[i].id = m

\* The camera is as it was, but for its connected flag.
OnlyFlagDiffers(before, after) ==
    /\ after.id = before.id
    /\ after.supported_formats = before.supported_formats
    /\ after.frames = before.frames

\* C27: the ids of the saved config are pairwise distinct after any sequence
\* of calls on a config whose ids were; add_camera appends a connected camera
\* whose id is the smallest positive integer that no camera of the loaded
\* config has; remove_cameras keeps the cameras not selected; connect_cameras
\* and disconnect_cameras change the connected flag of the selected cameras
\* and nothing else.
C27_IdsStayDistinct ==
    /\ configFile.exists => PairwiseDistinct(SavedCameras)
    /\ PairwiseDistinct(halLast.loaded)
    /\ halLast.op = "add" =>
          /\ Len(SavedCameras) = Len(halLast.loaded) + 1
          /\ SubSeq(SavedCameras, 1, Len(halLast.loaded)) = halLast.loaded
          /\ SavedCameras[Len(SavedCameras)].id =
                SmallestUnused(halLast.loaded)
          /\ SavedCameras[Len(SavedCameras)].connected
    /\ halLast.op = "remove" =>
          /\ \A i \in 1..Len(SavedCameras) :
                /\ SavedCameras[i].id \notin halLast.sel
                /\ \E j \in 1..Len(halLast.loaded) :
                      halLast.loaded[j] = SavedCameras[i]
          /\ \A j \in 1..Len(halLast.loaded) :
                halLast.loaded[j].id \notin halLast.sel =>
                   \E i \in 1..Len(SavedCameras) :
                      SavedCameras[i] = halLast.loaded[j]
    /\ halLast.op \in {"connect", "disconnect"} =>
          /\ Len(SavedCameras) = Len(halLast.loaded)
          /\ \A i \in 1..Len(SavedCameras) :
                /\ OnlyFlagDiffers(halLast.loaded[i], SavedCameras[i])
                /\ SavedCameras[i].id \in halLast.sel =>
                      SavedCameras[i].connected = (halLast.op = "connect")
                /\ SavedCameras[i].id \notin halLast.sel =>
                      SavedCameras[i] = halLast.loaded[i]

\* C27 witness: add_camera loaded a config whose one camera has id 2 and
\* appended a camera with id 1.
C27_Witness ==
    /\ halLast.op = "add"
    /\ Len(halLast.loaded) = 1
    /\ halLast.loaded[1].id = 2
    /\ SavedCameras[2].id = 1

\* A call that changes flags has changed the flag of one camera and left
\* that of another.
C27_FlagWitness ==
    /\ halLast.op = "disconnect"
    /\ Len(halLast.loaded) = 2
    /\ halLast.loaded[1].connected /\ ~SavedCameras[1].connected
    /\ halLast.loaded[2].connected /\ SavedCameras[2].connected

(***************************************************************************)
(* Merge of a backfilled ConfigBundle                                      *)
(* (chromeos-config/cros_config_host/cros_config_merge_backfilled_config.py)*)
(***************************************************************************)

\* Bound: elements of a repeated field of a parsed bundle.
MaxBundleLen == 2
\* Bound: merge_config_bundles calls on the same two bundles.
MaxMerges == 2

\* The id values of the messages: two that differ in case only.
IdValues == {"a", "A"}

\* str.lower
Lower(str) == IF str = "A" THEN "a" ELSE str

\* The repeated fields of a ConfigBundle: one of those keyed by id.value, and
\* design_list.
RepeatedFields == {"components", "design_list"}

\* Mutant: designs are keyed like the other messages.
KeyFn_CaseSensitive(field, elem) == elem.id

\* The keyFn merge_config_bundles passes for the field.
KeyFn(field, elem) ==
    IF field = "design_list" THEN Lower(elem.id) ELSE elem.id

\* The messages of a bundle: their id, and which source they come from.
Messages(origin) == {[id |-> v, origin |-> origin] : v \in IdValues}
Bundles(origin) ==
    [RepeatedFields -> SeqsUpTo(Messages(origin), MaxBundleLen)]

\* main: the two bundles are parsed.
MrgInit ==
    /\ ExpIdle /\ IdxIdle /\ RunIdle /\ SmpIdle /\ CIIdle
    /\ HalIdle /\ SrvIdle /\ GenIdle
    /\ config_bundle \in Bundles("starlark")
    /\ backfilled_config_bundle \in Bundles("backfilled")
    /\ mrgHist = [merges |-> 0, original |-> config_bundle,
                  backfilled |-> backfilled_config_bundle,
                  before |-> config_bundle]

\* The second loop of _merge_sequences_by_key, from element k of seq2 on;
\* seq1Keys is the set built by the first loop.
RECURSIVE MergeFrom(_, _, _, _, _)
MergeFrom(field, seq1, seq2, seq1Keys, k) ==
    IF k > Len(seq2) THEN seq1
    ELSE MergeFrom(field,
                   IF KeyFn(field, seq2[k]) \notin seq1Keys
                   THEN Append(seq1, seq2[k]) ELSE seq1,
                   seq2, seq1Keys, k + 1)

\* _merge_sequences_by_key: seq1 after the call.
merge_sequences_by_key(field, seq1, seq2) ==
    MergeFrom(field, seq1, seq2,
              {KeyFn(field, seq1[i]) : i \in 1..Len(seq1)}, 1)

\* merge_config_bundles(config_bundle, backfilled_config_bundle)
MergeConfigBundles ==
    /\ mrgHist.merges < MaxMerges
    /\ config_bundle' =
          [f \in RepeatedFields |->
              merge_sequences_by_key(f, config_bundle[f],
                                     backfilled_config_bundle[f])]
    /\ mrgHist' = [mrgHist EXCEPT !.merges = @ + 1, !.before = config_bundle]
    /\ UNCHANGED <<bootVars, halVars, srvVars, genVars,
                   backfilled_config_bundle>>

MrgNext == MergeConfigBundles

SpecMerge == MrgInit /\ [][MrgNext]_vars

(***************************************************************************)
(* Claims about the merge                                                  *)
(***************************************************************************)

\* The key under which the claim compares the messages of a field: the id
\* value, lower-cased for designs.
ClaimKey(field, elem) ==
    IF field = "design_list"
    THEN (IF elem.id = "A" THEN "a" ELSE elem.id)
    ELSE elem.id

\* The elements of `added` whose key is that of no element of `original`.
NotInOriginal(field, original, added) ==
    LET New(elem) ==
          \A i \in 1..Len(original) :
             ClaimKey(field, original[i]) # ClaimKey(field, elem)
    IN SelectSeq(added, New)

\* C28: after a merge every repeated field of the original bundle is what it
\* was, followed by the backfilled elements, in their order, whose key (the
\* id value, lower-cased for designs) is the key of no element the original
\* had; an element whose key is in both is not added; the backfilled bundle
\* is as parsed; a second merge of the same backfilled bundle changes
\* nothing.
C28_MergeAppendsMissing ==
    /\ backfilled_config_bundle = mrgHist.backfilled
    /\ mrgHist.merges = 0 => config_bundle = mrgHist.original
    /\ mrgHist.merges >= 1 =>
          \A f \in RepeatedFields :
             /\ config_bundle[f] =
                   mrgHist.original[f] \o
                     NotInOriginal(f, mrgHist.original[f],
                                   backfilled_config_bundle[f])
             /\ SubSeq(config_bundle[f], 1, Len(mrgHist.original[f])) =
                   mrgHist.original[f]
             /\ \A i \in (Len(mrgHist.original[f]) + 1)..Len(config_bundle[f]) :
                   /\ config_bundle[f][i].origin = "backfilled"
                   /\ \A j \in 1..Len(mrgHist.original[f]) :
                         ClaimKey(f, mrgHist.original[f][j]) #
                            ClaimKey(f, config_bundle[f][i])
    /\ mrgHist.merges >= 2 => config_bundle = mrgHist.before

\* C28 witness: the bundles were merged twice; the original design "A" kept
\* the backfilled design "a" out while the backfilled component "a" was
\* appended after the original component "A".
C28_Witness ==
    /\ mrgHist.merges = 2
    /\ mrgHist.original.design_list = <<[id |-> "A", origin |-> "starlark"]>>
    /\ mrgHist.original.components = <<[id |-> "A", origin |-> "starlark"]>>
    /\ backfilled_config_bundle.design_list =
          <<[id |-> "a", origin |-> "backfilled"]>>
    /\ backfilled_config_bundle.components =
          <<[id |-> "a", origin |-> "backfilled"]>>
    /\ Len(config_bundle.design_list) = 1
    /\ Len(config_bundle.components) = 2

(***************************************************************************)
(* Capture webserver: FingerWebSocket (biod/study/study_serve.py)          *)
(***************************************************************************)

\* Bound: finger requests the page sends over one websocket.
MaxRequests == 3

\* The values of current_req: None, or the request of a 'finger' message
\* (the requests are numbered in the order they arrive).
None == 0

\* set_config has started the worker thread; the websocket thread is
\* between two messages.
SrvInit ==
    /\ ExpIdle /\ IdxIdle /\ RunIdle /\ SmpIdle /\ CIIdle
    /\ HalIdle /\ MrgIdle /\ GenIdle
    /\ current_req = None
    /\ abort_request = FALSE
    /\ lockOwner = "none"
    /\ wsPc = "idle" /\ wsReq = None
    /\ wkPc = "loop" /\ wkReq = None
    /\ terminated = FALSE
    /\ srvHist = NoSrvHist

\* available_req.notify(): the worker, if it waits, is to wake up.
Notify == IF wkPc = "waiting" THEN "wakeup" ELSE wkPc

\* Mutant: finger_request does not raise abort_request before it asks for
\* the lock.
AbortBeforeAcquire_Missing == abort_request

\* finger_request: self.abort_request = True, before the acquire.
AbortBeforeAcquire == TRUE

\* received_message with a 'finger' key: finger_request raises
\* abort_request, then asks for the lock.
FingerRequest ==
    /\ wsPc = "idle" /\ ~terminated
    /\ srvHist.arrived < MaxRequests
    /\ abort_request' = AbortBeforeAcquire
    /\ wsReq' = srvHist.arrived + 1
    /\ srvHist' = [srvHist EXCEPT !.arrived = @ + 1]
    /\ wsPc' = "request_acquire"
    /\ UNCHANGED <<bootVars, halVars, mrgVars, genVars, current_req, lockOwner, wkPc,
                   wkReq, terminated>>

\* closed: abort_request is raised, then the lock is asked for.
Closed ==
    /\ wsPc = "idle"
    /\ abort_request' = TRUE
    /\ srvHist' = [srvHist EXCEPT !.closing = TRUE]
    /\ wsPc' = "closed_acquire"
    /\ UNCHANGED <<bootVars, halVars, mrgVars, genVars, current_req, lockOwner, wsReq,
                   wkPc, wkReq, terminated>>

\* self.available_req.acquire() in the websocket thread
WsAcquire ==
    /\ wsPc \in {"request_acquire", "closed_acquire"}
    /\ lockOwner = "none"
    /\ lockOwner' = "ws"
    /\ wsPc' = IF wsPc = "request_acquire" THEN "request_store"
               ELSE "closed_notify"
    /\ UNCHANGED <<bootVars, halVars, mrgVars, genVars, current_req, abort_request,
                   wsReq, wkPc, wkReq, terminated, srvHist>>

\* finger_request: abort_request = False; current_req = req; notify()
WsStore ==
    /\ wsPc = "request_store"
    /\ abort_request' = FALSE
    /\ current_req' = wsReq
    /\ wkPc' = Notify
    /\ srvHist' = [srvHist EXCEPT
                     !.unlocked = @ \/ lockOwner # "ws"]
    /\ wsPc' = "request_release"
    /\ UNCHANGED <<bootVars, halVars, mrgVars, genVars, lockOwner, wsReq, wkReq,
                   terminated>>

\* closed: notify()
WsClosedNotify ==
    /\ wsPc = "closed_notify"
    /\ wkPc' = Notify
    /\ wsPc' = "closed_release"
    /\ UNCHANGED <<bootVars, halVars, mrgVars, genVars, current_req, abort_request,
                   lockOwner, wsReq, wkReq, terminated, srvHist>>

\* self.available_req.release() in the websocket thread
WsRelease ==
    /\ wsPc \in {"request_release", "closed_release"}
    /\ lockOwner' = "none"
    /\ wsPc' = IF wsPc = "request_release" THEN "idle" ELSE "join"
    /\ UNCHANGED <<bootVars, halVars, mrgVars, genVars, current_req, abort_request,
                   wsReq, wkPc, wkReq, terminated, srvHist>>

\* closed: self.worker.join(10.0) returns, the worker gone or not.
WsJoin ==
    /\ wsPc = "join"
    /\ wsPc' = "closed"
    /\ UNCHANGED <<bootVars, halVars, mrgVars, genVars, current_req, abort_request,
                   lockOwner, wsReq, wkPc, wkReq, terminated, srvHist>>

\* The websocket library sets server_terminated or client_terminated, when
\* the closing handshake starts or when the connection is torn down.
Terminate ==
    /\ wsPc \in {"idle", "closed"}
    /\ ~terminated
    /\ terminated' = TRUE
    /\ srvHist' = [srvHist EXCEPT !.closing = TRUE]
    /\ UNCHANGED <<bootVars, halVars, mrgVars, genVars, current_req, abort_request,
                   lockOwner, wsPc, wsReq, wkPc, wkReq>>

\* finger_worker: while not self.server_terminated and not
\* self.client_terminated
WorkerLoop ==
    /\ wkPc = "loop"
    /\ wkPc' = IF terminated THEN "exited" ELSE "acquire"
    /\ UNCHANGED <<bootVars, halVars, mrgVars, genVars, current_req, abort_request,
                   lockOwner, wsPc, wsReq, wkReq, terminated, srvHist>>

\* finger_worker: self.available_req.acquire(), or the acquire that ends
\* self.available_req.wait()
WorkerAcquire ==
    /\ wkPc \in {"acquire", "wakeup"}
    /\ lockOwner = "none"
    /\ lockOwner' = "worker"
    /\ wkPc' = "check"
    /\ UNCHANGED <<bootVars, halVars, mrgVars, genVars, current_req, abort_request,
                   wsPc, wsReq, wkReq, terminated, srvHist>>

\* finger_worker: while not self.current_req and not self.abort_request:
\* wait(), which gives the lock up
WorkerWait ==
    /\ wkPc = "check"
    /\ current_req = None /\ ~abort_request
    /\ lockOwner' = "none"
    /\ wkPc' = "waiting"
    /\ UNCHANGED <<bootVars, halVars, mrgVars, genVars, current_req, abort_request,
                   wsPc, wsReq, wkReq, terminated, srvHist>>

\* finger_worker: self.finger_process(self.current_req)
WorkerProcess ==
    /\ wkPc = "check"
    /\ ~(current_req = None /\ ~abort_request)
    /\ wkReq' = current_req
    /\ srvHist' = [srvHist EXCEPT !.handed = @ \cup ({current_req} \ {None})]
    /\ wkPc' = "finger_up"
    /\ UNCHANGED <<bootVars, halVars, mrgVars, genVars, current_req, abort_request,
                   lockOwner, wsPc, wsReq, terminated>>

\* finger_process: finger_wait_done(FP_MODE_FINGER_UP) returns, False when
\* abort_request is set, True when the mode bit has gone; then the capture
\* is started.
WorkerFingerUp ==
    /\ wkPc = "finger_up"
    /\ wkPc' = IF abort_request THEN "clear" ELSE "capture"
    /\ UNCHANGED <<bootVars, halVars, mrgVars, genVars, current_req, abort_request,
                   lockOwner, wsPc, wsReq, wkReq, terminated, srvHist>>

\* finger_process: finger_wait_done(FP_MODE_CAPTURE) returns.
WorkerCapture ==
    /\ wkPc = "capture"
    /\ wkPc' = IF abort_request THEN "clear" ELSE "save"
    /\ UNCHANGED <<bootVars, halVars, mrgVars, genVars, current_req, abort_request,
                   lockOwner, wsPc, wsReq, wkReq, terminated, srvHist>>

\* finger_process: req['result'] = 'ok', finger_save_image(req),
\* self.send(json.dumps(req))
WorkerSave ==
    /\ wkPc = "save"
    /\ srvHist' = [srvHist EXCEPT !.answered = @ \cup {wkReq}]
    /\ wkPc' = "clear"
    /\ UNCHANGED <<bootVars, halVars, mrgVars, genVars, current_req, abort_request,
                   lockOwner, wsPc, wsReq, wkReq, terminated>>

\* finger_worker: self.current_req = None
WorkerClear ==
    /\ wkPc = "clear"
    /\ current_req' = None
    /\ wkReq' = None
    /\ srvHist' = [srvHist EXCEPT
                     !.unlocked = @ \/ lockOwner # "worker",
                     !.dropped = @ \cup ({current_req} \ ({None} \cup
                                                          srvHist.handed))]
    /\ wkPc' = "release"
    /\ UNCHANGED <<bootVars, halVars, mrgVars, genVars, abort_request, lockOwner, wsPc,
                   wsReq, terminated>>

\* finger_worker: self.available_req.release()
WorkerRelease ==
    /\ wkPc = "release"
    /\ lockOwner' = "none"
    /\ wkPc' = "loop"
    /\ UNCHANGED <<bootVars, halVars, mrgVars, genVars, current_req, abort_request,
                   wsPc, wsReq, wkReq, terminated, srvHist>>

WorkerNext ==
    \/ WorkerLoop
    \/ WorkerAcquire
    \/ WorkerWait
    \/ WorkerProcess
    \/ WorkerFingerUp
    \/ WorkerCapture
    \/ WorkerSave
    \/ WorkerClear
    \/ WorkerRelease

SrvNext ==
    \/ FingerRequest
    \/ Closed
    \/ WsAcquire
    \/ WsStore
    \/ WsClosedNotify
    \/ WsRelease
    \/ WsJoin
    \/ Terminate
    \/ WorkerNext

\* The worker thread is scheduled as long as it can run, and the websocket
\* thread leaves the critical section of finger_request.
SpecServe ==
    /\ SrvInit /\ [][SrvNext]_vars
    /\ WF_vars(WorkerNext)
    /\ WF_vars(WsStore \/ WsRelease)

(***************************************************************************)
(* Claims about the capture webserver                                      *)
(***************************************************************************)

\* The worker is inside finger_process.
InFingerProcess == wkPc \in {"finger_up", "capture", "save"}

\* What holds in every state of the two threads.
C29_Safe ==
    \* one request at a time, and only one the page has sent
    /\ wkReq \in 0..srvHist.arrived
    /\ (~InFingerProcess /\ wkPc # "clear") => wkReq = None
    /\ wkReq # None => wkReq = current_req
    \* current_req is written under the lock
    /\ ~srvHist.unlocked
    /\ wkPc \in {"check", "finger_up", "capture", "save", "clear", "release"}
          <=> lockOwner = "worker"
    /\ wsPc \in {"request_store", "request_release", "closed_notify",
                 "closed_release"} <=> lockOwner = "ws"
    \* a finger_request that waits for the lock has the worker give up
    /\ (wsPc = "request_acquire" /\ InFingerProcess) => abort_request
    /\ (wsPc = "request_acquire" /\ wkPc = "check") => abort_request
    \* no request is cleared that was not handed to finger_process
    /\ srvHist.dropped = {}
    /\ srvHist.answered \subseteq srvHist.handed
    \* without a request finger_process runs under abort_request only, and
    \* does not get to where it reads the request
    /\ (InFingerProcess /\ wkReq = None) => abort_request
    /\ wkPc \in {"capture", "save"} => wkReq # None
    /\ None \notin srvHist.answered

\* C29: under every interleaving of the websocket thread and the worker
\* thread the worker handles one request at a time, current_req is written
\* under the condition lock only, a finger_request that arrives during
\* processing finds abort_request set until it has the lock, so that the
\* worker gives the capture up, finger_process runs without a request only
\* while abort_request is set and returns before it reads the request, and a
\* request that finger_request stored is handed to finger_process unless a
\* later request takes its place or the socket is closed.
C29_OneRequestAtATime ==
    /\ []C29_Safe
    /\ \A r \in 1..MaxRequests :
          (current_req = r) ~>
             (r \in srvHist.handed \/ current_req > r \/ srvHist.closing)

\* C29 witness: the second request arrived while the worker waited for the
\* capture of the first; the worker gave the first up, ran finger_process
\* without a request while the websocket thread waited for the lock, and
\* has answered the second.
C29_Witness ==
    /\ srvHist.answered = {2}
    /\ srvHist.handed = {1, 2}
    /\ ~srvHist.closing

\* The worker runs finger_process without a request: it got the lock back
\* before the websocket thread that raised abort_request.
C29_SpinWitness ==
    /\ wkPc = "finger_up" /\ wkReq = None
    /\ wsPc = "request_acquire"

(***************************************************************************)
(* gen_skel: do_gen_bpf_skeleton (secagentd/tools/generate-ebpf.py)        *)
(***************************************************************************)

\* arch_to_define.get(arch, None), "None" for an architecture not in the
\* table
arch_to_define(arch) ==
    CASE arch \in {"amd64", "amd64-linux", "x86", "x86-linux"} ->
            "__TARGET_ARCH_x86"
      [] arch \in {"arm", "arm-linux"} -> "__TARGET_ARCH_arm"
      [] arch = "arm64" -> "__TARGET_ARCH_arm64"
      [] arch = "mips" -> "__TARGET_ARCH_mips"
      [] arch \in {"ppc", "ppc64", "ppc64-linux"} -> "__TARGET_ARCH_powerpc"
      [] OTHER -> "None"

\* The --arch values of the calls: those of the table, and one that is not.
Archs ==
    {"amd64", "amd64-linux", "arm", "arm-linux", "arm64", "mips", "ppc",
     "ppc64", "ppc64-linux", "x86", "x86-linux", "riscv"}

\* main has parsed the arguments of a gen_skel call: --out_min_btf and
\* --vmlinux_btf are given or not, each on its own.
GenInit ==
    /\ ExpIdle /\ IdxIdle /\ RunIdle /\ SmpIdle /\ CIIdle
    /\ HalIdle /\ MrgIdle /\ SrvIdle
    /\ genArgs \in [arch : Archs, out_min_btf : BOOLEAN,
                    vmlinux_btf : BOOLEAN]
    /\ genPc = "arch"
    /\ genRan = <<>>
    /\ genHeader = FALSE
    /\ genResult = "none"

\* _run_command(command) at position `at`: the command runs; when it fails
\* subprocess.run raises CalledProcessError, which main turns into -1.
RunCommand(at, command, next) ==
    /\ genPc = at
    /\ genRan' = Append(genRan, command)
    /\ \E ok \in BOOLEAN :
          IF ok THEN genPc' = next /\ UNCHANGED genResult
          ELSE genPc' = "done" /\ genResult' = "-1"
    /\ UNCHANGED <<bootVars, halVars, mrgVars, srvVars, genArgs, genHeader>>

\* do_gen_bpf_skeleton returns `result` from position `at`.
Return(at, result) ==
    /\ genPc = at
    /\ genPc' = "done"
    /\ genResult' = result
    /\ UNCHANGED <<bootVars, halVars, mrgVars, srvVars, genArgs, genRan,
                   genHeader>>

\* arch = arch_to_define.get(arch, None); if arch is None: return -1
GenUnknownArch ==
    /\ arch_to_define(genArgs.arch) = "None"
    /\ Return("arch", "-1")

GenKnownArch ==
    /\ genPc = "arch"
    /\ arch_to_define(genArgs.arch) # "None"
    /\ genPc' = "compile"
    /\ UNCHANGED <<bootVars, halVars, mrgVars, srvVars, genArgs, genRan,
                   genHeader, genResult>>

\* _run_command(call_bpf_clang)
GenCompile == RunCommand("compile", "bpf-clang", "strip")

\* _run_command(strip_dwarf)
GenStrip == RunCommand("strip", "llvm-strip", "skeleton")

\* bpftool_proc = _run_command(gen_skeleton)
GenSkeleton == RunCommand("skeleton", "bpftool gen skeleton", "header")

\* with open(out_header, "w") as bpf_skeleton: bpf_skeleton.write(...)
GenWriteHeader ==
    /\ genPc = "header"
    /\ genHeader' = TRUE
    /\ genPc' = "min_btf"
    /\ UNCHANGED <<bootVars, halVars, mrgVars, srvVars, genArgs, genRan,
                   genResult>>

\* if out_btf: (not given) ... return 0
GenNoMinBtf ==
    /\ ~genArgs.out_min_btf
    /\ Return("min_btf", "0")

\* if out_btf: if not vmlinux_btf: return -1
GenNeedVmlinuxBtf ==
    /\ genArgs.out_min_btf /\ ~genArgs.vmlinux_btf
    /\ Return("min_btf", "-1")

\* _run_command(gen_min_core_btf)
GenMinCoreBtf ==
    /\ genArgs.out_min_btf /\ genArgs.vmlinux_btf
    /\ RunCommand("min_btf", "bpftool gen min_core_btf", "return")

\* return 0
GenReturn == Return("return", "0")

GenNext ==
    \/ GenUnknownArch
    \/ GenKnownArch
    \/ GenCompile
    \/ GenStrip
    \/ GenSkeleton
    \/ GenWriteHeader
    \/ GenNoMinBtf
    \/ GenNeedVmlinuxBtf
    \/ GenMinCoreBtf
    \/ GenReturn

SpecGenSkel == GenInit /\ [][GenNext]_vars

(***************************************************************************)
(* Claims about gen_skel                                                   *)
(***************************************************************************)

\* The call asks for a min-core BTF and gives no vmlinux BTF.
MinBtfWithoutInput == genArgs.out_min_btf /\ ~genArgs.vmlinux_btf

SeqHas(q, x) == \E k \in 1..Len(q) : q[k] = x

\* C30: a gen_skel call that asks for a min-core BTF output and gives no
\* vmlinux BTF input returns -1, never runs the min_core_btf command, and is
\* rejected before any compile, strip or skeleton command has run and before
\* the skeleton header is written.
C30_RejectedEagerly ==
    MinBtfWithoutInput =>
        /\ genPc = "done" => genResult = "-1"
        /\ ~SeqHas(genRan, "bpftool gen min_core_btf")
        /\ genRan = <<>>
        /\ ~genHeader

\* What does hold of such a call: it returns -1 and the min_core_btf command
\* is not run.
C30_RejectedInTheEnd ==
    MinBtfWithoutInput =>
        /\ genPc = "done" => genResult = "-1"
        /\ ~SeqHas(genRan, "bpftool gen min_core_btf")

\* The rejection comes last: the three commands have run and the header is
\* written when the call returns -1 for the missing input.
C30_LateWitness ==
    /\ MinBtfWithoutInput
    /\ genPc = "done" /\ genResult = "-1"
    /\ genRan = <<"bpf-clang", "llvm-strip", "bpftool gen skeleton">>
    /\ genHeader

====
